---- MODULE Spec2Model ----
(***************************************************************************)
(* Measurement-driven pagination of a bilingual post (paginationService,   *)
(* v3.0): paginateMainContent, splitComment, paginateComments, paginate,   *)
(* together with the text routines that feed them.                         *)
(*                                                                         *)
(* A text is a sequence of one-character strings.  The rendering and       *)
(* measuring collaborator (renderHTML + measureContentHeight) is opaque:   *)
(* every call returns one of Heights or throws.                            *)
(***************************************************************************)
EXTENDS Integers, Sequences, FiniteSets, TLC

\* ------------------------------------------------------------------ bounds
MaxPars == 3        \* paragraphs per language track of a post body
MaxComments == 3    \* comments of a post
MaxCPars == 2       \* paragraphs per language track of a comment body

\* ------------------------------------------------------- program constants
MAX_HEIGHT_MAIN_CONTENT == 800
MAX_HEIGHT_COMMENTS == 900
MAX_HEIGHT_SINGLE_COMMENT == 870
MAX_COMMENTS_PER_PAGE == 3
SPLIT_MIN_TEXT_LENGTH == 500
SPLIT_MIN_SEGMENT_LENGTH == 200
SPLIT_TARGET_LENGTH == 150

\* The heights the measurement may report: 0 (element absent or fault), one
\* under every budget, one between the main budget and the comment budgets,
\* one over every budget.
Heights == {0, 400, 850, 1300}
THROW == -1
Outcomes == Heights \cup {THROW}

\* -------------------------------------------------------------------- text
NL == "\n"
\* U+3002, U+FF01 and U+FF1F are written by their code points
FULL_STOP == "u3002"
SentenceEnd == {FULL_STOP, "uFF01", "uFF1F", ".", "!", "?"}
Whitespace == {" ", NL}

Max(a, b) == IF a >= b THEN a ELSE b
Min(a, b) == IF a <= b THEN a ELSE b

\* Array.prototype.slice(0, k) and what splice(0, k) leaves behind
Slice(s, k) == SubSeq(s, 1, Min(k, Len(s)))
Rest(s, k) == SubSeq(s, Min(k, Len(s)) + 1, Len(s))

\* the text s repeated n times
Rep(s, n) == [i \in 1..(n * Len(s)) |-> s[((i - 1) % Len(s)) + 1]]

\* String.prototype.split on a one-character separator class ('' gives ['']):
\* the pieces between consecutive separator positions
SplitOn(s, seps) ==
    LET P == {i \in 1..Len(s) : s[i] \in seps}
        Nth(j) == CHOOSE i \in P : Cardinality({p \in P : p < i}) = j - 1
        From(j) == IF j = 1 THEN 1 ELSE Nth(j - 1) + 1
        To(j) == IF j = Cardinality(P) + 1 THEN Len(s) ELSE Nth(j) - 1
    IN [j \in 1..(Cardinality(P) + 1) |-> SubSeq(s, From(j), To(j))]

\* String.prototype.trim
Trim(s) ==
    LET K == {i \in 1..Len(s) : s[i] \notin Whitespace}
    IN IF K = {} THEN <<>>
       ELSE SubSeq(s, CHOOSE i \in K : \A j \in K : i <= j,
                      CHOOSE i \in K : \A j \in K : i >= j)

\* filter(p => p.trim().length > 0)
NonBlank(ps) == SelectSeq(ps, LAMBDA p : Len(Trim(p)) > 0)

\* Array.prototype.join('\n')
RECURSIVE JoinNoSep(_)
JoinNoSep(ps) == IF ps = <<>> THEN <<>> ELSE Head(ps) \o JoinNoSep(Tail(ps))
RECURSIVE Join(_)
Join(ps) ==
    IF ps = <<>> THEN <<>>
    ELSE IF Len(ps) = 1 THEN ps[1]
    ELSE ps[1] \o <<NL>> \o Join(Tail(ps))

\* (text || '').split('\n').filter(p => p.trim().length > 0)
Paragraphs(text) == NonBlank(SplitOn(text, {NL}))

\* the sentence re-packing loop of smartSplitText
RECURSIVE Repack(_, _, _)
Repack(sentences, currentSegment, newSegments) ==
    IF sentences = <<>>
    THEN IF Len(Trim(currentSegment)) > 0
         THEN Append(newSegments, Trim(currentSegment))
         ELSE newSegments
    ELSE LET sentence == Head(sentences)
             potentialSegment == currentSegment \o sentence \o <<FULL_STOP>>
         IN IF Len(potentialSegment) > SPLIT_TARGET_LENGTH /\ Len(currentSegment) > 0
            THEN Repack(Tail(sentences), sentence \o <<FULL_STOP>>,
                        Append(newSegments, Trim(currentSegment)))
            ELSE Repack(Tail(sentences), potentialSegment, newSegments)

\* the long paragraph kept in one piece: the buffer is never flushed
Rechunk_NoFlush(segment) ==
    IF Len(segment) > SPLIT_MIN_SEGMENT_LENGTH
    THEN LET sentences == NonBlank(SplitOn(segment, SentenceEnd))
         IN IF Len(sentences) > 1
            THEN <<Trim(JoinNoSep([k \in 1..Len(sentences) |->
                                      sentences[k] \o <<FULL_STOP>>]))>>
            ELSE <<segment>>
    ELSE <<segment>>

Rechunk(segment) ==
    IF Len(segment) > SPLIT_MIN_SEGMENT_LENGTH
    THEN LET sentences == NonBlank(SplitOn(segment, SentenceEnd))
         IN IF Len(sentences) > 1 THEN Repack(sentences, <<>>, <<>>) ELSE <<segment>>
    ELSE <<segment>>

RECURSIVE RechunkAll(_)
RechunkAll(segments) ==
    IF segments = <<>> THEN <<>> ELSE Rechunk(Head(segments)) \o RechunkAll(Tail(segments))

smartSplitText(text) ==
    IF text = <<>> THEN <<>>
    ELSE LET segments == Paragraphs(text)
         IN IF Len(segments) <= 2 /\ Len(text) > SPLIT_MIN_TEXT_LENGTH
            THEN RechunkAll(segments)
            ELSE segments

\* ---------------------------------------------------------------- records
Has(r, f) == f \in DOMAIN r

\* a || b on strings and on texts
OrStr(a, b) == IF a # "" THEN a ELSE b
OrText(a, b) == IF a # <<>> THEN a ELSE b

\* the value null (no text is a sequence holding this string)
NULL == <<"null">>

\* HTMLRenderer.preprocessData
preprocessData(data) ==
    LET d1 == IF Has(data, "content_zh") /\ data.content_zh # <<>>
              THEN ("content_zh_paragraphs" :> Slice(Paragraphs(data.content_zh), 6)) @@ data
              ELSE data
        d2 == IF Has(d1, "summary_zh") /\ d1.summary_zh # <<>>
              THEN ("summary_zh_paragraphs" :> Slice(Paragraphs(d1.summary_zh), 4)) @@ d1
              ELSE d1
        d3 == IF Has(d2, "content") /\ d2.content # <<>>
              THEN ("content_paragraphs" :> Slice(Paragraphs(d2.content), 5)) @@ d2
              ELSE d2
        shown(comment) ==
            [comment EXCEPT !.body_zh = OrText(comment.body_zh, comment.body),
                            !.body = IF comment.body_zh # <<>> THEN comment.body ELSE NULL]
    IN IF Has(d3, "comments")
       THEN [d3 EXCEPT !.comments = [j \in 1..Min(3, Len(@)) |-> shown(@[j])]]
       ELSE d3

\* HTMLRenderer.renderHTML: the compiled template applied to the preprocessed
\* data; the markup is whatever the template makes of that record
renderHTML(templateName, data) == [template |-> templateName, data |-> preprocessData(data)]

MAIN_CONTENT_SELECTOR == ".main-content"
COMMENTS_SECTION_SELECTOR == ".comments-section"

\* ----------------------------------------------------------------- inputs
EnLetters == <<"a", "b", "c", "d", "e", "f">>
ZhLetters == <<"p", "q", "r", "s", "t", "u">>

\* the lines of a text, one per line
RECURSIVE Unlines(_)
Unlines(ls) ==
    IF ls = <<>> THEN <<>>
    ELSE IF Len(ls) = 1 THEN ls[1]
    ELSE ls[1] \o <<NL>> \o Unlines(Tail(ls))

\* a text of k one-letter paragraphs, with a blank line after the first
\* paragraph when blank (k = 0: the empty text, or the blank-only text)
TextOf(letters, k, blank) ==
    Unlines([j \in 1..(IF blank THEN k + 1 ELSE k) |->
                IF ~blank THEN <<letters[j]>>
                ELSE IF j = (IF k = 0 THEN 1 ELSE 2) THEN <<" ">>
                ELSE <<letters[IF j > 2 THEN j - 1 ELSE j]>>])

\* one paragraph of two long sentences: over the re-chunking thresholds
LongText == Rep(<<"a">>, 250) \o <<".">> \o Rep(<<"b">>, 250) \o <<"!">>

Authors == <<"u1", "u2", "u3", "u4">>

\* comment j of a list: ke paragraphs of body (ke = 0 stands for LongText),
\* kz paragraphs of body_zh
CommentOf(j, ke, kz) ==
    [author |-> Authors[j],
     body |-> IF ke = 0 THEN LongText ELSE TextOf(EnLetters, ke, FALSE),
     body_zh |-> TextOf(ZhLetters, kz, FALSE),
     ups |-> 10 - j]

\* the shapes of a comment: ke in 1..MaxCPars with kz in 0..MaxCPars, or LongText
CommentShapes == ((1..MaxCPars) \X (0..MaxCPars)) \cup {<<0, 0>>}

\* comment lists as preprocessPostData leaves them (bodies not blank, sorted by
\* descending ups): one comment of any shape among one-paragraph comments
CommentLists ==
    {<<>>} \cup
    {[j \in 1..c |-> IF j = m THEN CommentOf(j, sh[1], sh[2]) ELSE CommentOf(j, 1, 1)] :
        c \in 1..MaxComments, m \in 1..MaxComments, sh \in CommentShapes}

PostOf(selftext, selftext_zh, commentList) ==
    [id |-> "t3", title |-> "T", title_zh |-> "", title_polish_zh |-> "",
     ups |-> 7, subreddit |-> "s",
     selftext |-> selftext, selftext_zh |-> selftext_zh, commentList |-> commentList]

BodyTexts(letters) == {TextOf(letters, k, b) : k \in 0..MaxPars, b \in BOOLEAN}

\* posts with a varied body and at most one short comment, and posts with no
\* body and varied comments
Posts ==
    {PostOf(en, zh, cl) : en \in BodyTexts(EnLetters), zh \in BodyTexts(ZhLetters),
                          cl \in {<<>>, <<CommentOf(1, 1, 1)>>}}
    \cup {PostOf(<<>>, <<>>, cl) : cl \in CommentLists}

\* ------------------------------------------------------------------ state
VARIABLES
    post,            \* the post handed to paginate
    pc,              \* where paginate stands (at which await)
    pages,           \* paginate: pages
    remaining_zh, remaining_en, isFirstPage,      \* paginateMainContent
    low, high, best_fit_size,                     \* the binary search under way
    hv,              \* what measuring the first k items would report, k in 1..high0
    probed,          \* the k measured so far by the search under way
    lastFit,         \* the search completed by the last step, if any
    i, commentQueue,                              \* paginateComments
    caught,          \* the comments whose processing threw: <<index, chunks dropped>>
    rem_zh, rem_en, isFirstChunk, chunks,         \* splitComment
    pageComments,                                 \* paginateComments, packing
    deterministic,   \* the collaborator reports the same for the same markup
    oracle,          \* what it has reported so far, per markup and selector
    probes,          \* the calls of this run, in order
    run, pc1, pages1, probes1,                    \* the run before this one
    renderData, renderedHtml,   \* renderHTML: the data handed in, the html handed back
    mpc,             \* where measureContentHeight stands
    openPages,       \* the browser pages open
    mres,            \* what the last call of measureContentHeight came to
    mcalls,          \* the calls of measureContentHeight so far
    bpc,             \* where generateBatchCards stands
    posts,           \* generateBatchCards: posts (their ids)
    attempted,       \* the posts handed to generatePostCards so far, in order
    results, errors, \* generateBatchCards: results, errors
    wrapInput, words,   \* wrapText: text, and words = smartSplit(text)
    rpc,             \* where retryOperation stands
    maxRetries, delay, attempt, lastError,        \* retryOperation
    rlog,            \* the calls of operation, what they came to, and the waits
    rret,            \* what retryOperation returned or threw
    gpc,             \* where generatePostCards stands
    gpages, gi, gresults,     \* generatePostCards: pages (their types), i, results
    glog,            \* the render and save steps taken, in order
    gret,            \* what generatePostCards returned or threw
    enabled, isRunning, cleanupInterval,   \* CleanupService: config.enabled and fields
    timers,          \* the timeouts and intervals set and not cleared or spent
    nextHandle,      \* the handle the next timer gets
    cleanups,        \* the calls of performCleanup: by whom, and isRunning then
    browser,         \* HTMLRenderer: this.browser (0 for null)
    live,            \* the browsers launched and not closed
    ipc,             \* where each caller of initBrowser stands
    kpc, closing,    \* where close() stands, and the browser it is closing
    nextBrowser,     \* the browser the next launch gives
    cycleLaunches,   \* the launches since the renderer was new or last closed
    returned,        \* what generateBatchCards returned
    cpc,             \* where cleanupOldImages stands
    imageDir,        \* the files of the image directory: name and mtime
    imageDir0,       \* the directory as the run of cleanupOldImages found it
    files,           \* cleanupOldImages: files still to scan
    retentionDays,   \* config.retentionDays
    refused,         \* the names whose stat or unlink threw in this run
    stats,           \* cleanupOldImages: stats
    grown,           \* the page being packed: the last probe and the last accepted height
    lastPack         \* the comments page pushed by the last step, if any

fitVars == <<low, high, best_fit_size, hv, probed>>
mainVars == <<remaining_zh, remaining_en, isFirstPage>>
splitVars == <<rem_zh, rem_en, isFirstChunk, chunks>>
runVars == <<deterministic, run, pc1, pages1, probes1>>
collabVars == <<renderData, renderedHtml, mpc, openPages, mres, mcalls>>
batchVars == <<bpc, posts, attempted, results, errors, returned>>
cleanupVars == <<cpc, imageDir, imageDir0, files, retentionDays, refused, stats>>
wrapVars == <<wrapInput, words>>
retryVars == <<rpc, maxRetries, delay, attempt, lastError, rlog, rret>>
genVars == <<gpc, gpages, gi, gresults, glog, gret>>
schedVars == <<enabled, isRunning, cleanupInterval, timers, nextHandle, cleanups>>
browserVars == <<browser, live, ipc, kpc, closing, nextBrowser, cycleLaunches>>
utilVars == <<wrapVars, retryVars, genVars, schedVars, browserVars>>
serviceVars == <<batchVars, cleanupVars, utilVars>>
packHist == <<grown, lastPack>>
vars == <<post, pc, pages, mainVars, fitVars, lastFit, i, commentQueue, caught, splitVars,
          pageComments, oracle, probes, runVars, collabVars, serviceVars, packHist>>

\* no outcome yet
NONE == -2

\* no probe yet for the page being packed
NoGrow == [n |-> 0, out |-> NONE, height |-> NONE]

\* no comments page pushed by the last step
NoPack == [n |-> 0, height |-> NONE, forced |-> FALSE]

NoFit == [who |-> "none", n |-> 0, hv |-> <<>>, limit |-> 0, k |-> 0, probed |-> <<>>]

\* no call of renderHTML yet
NoRender == [status |-> "none"]

\* nothing rendered, nothing measured
CollabIdle ==
    /\ renderData = NoRender /\ renderedHtml = NoRender
    /\ mpc = "idle" /\ openPages = 0 /\ mres = NONE /\ mcalls = 0

\* generateBatchCards has not returned
NoReturn == [status |-> "none"]

\* const stats = { filesScanned: 0, filesDeleted: 0, filesSkipped: 0, errors: 0, ... }
NoStats == [filesScanned |-> 0, filesDeleted |-> 0, filesSkipped |-> 0, errors |-> 0]

\* no batch in hand
BatchIdle ==
    /\ bpc = "idle" /\ posts = <<>> /\ attempted = <<>>
    /\ results = <<>> /\ errors = <<>> /\ returned = NoReturn

\* no cleanup under way, an empty image directory
CleanupIdle ==
    /\ cpc = "idle" /\ imageDir = {} /\ imageDir0 = {} /\ files = <<>>
    /\ retentionDays = 1 /\ refused = {} /\ stats = NoStats

MaxCallers == 2     \* concurrent callers of initBrowser
Callers == 1..MaxCallers

\* no text in hand
WrapIdle == wrapInput = <<>> /\ words = <<>>

\* no retryOperation under way
RetryIdle ==
    /\ rpc = "idle" /\ maxRetries = 3 /\ delay = 1000 /\ attempt = 0
    /\ lastError = "undefined" /\ rlog = <<>> /\ rret = NoReturn

\* no generatePostCards under way
GenIdle ==
    /\ gpc = "idle" /\ gpages = <<>> /\ gi = 0 /\ gresults = <<>>
    /\ glog = <<>> /\ gret = NoReturn

\* new CleanupService(): cleanupInterval = null (0), isRunning = false
SchedIdle ==
    /\ enabled = TRUE /\ isRunning = FALSE /\ cleanupInterval = 0
    /\ timers = {} /\ nextHandle = 1 /\ cleanups = <<>>

\* new HTMLRenderer(): this.browser = null, nobody calling
BrowserIdle ==
    /\ browser = 0 /\ live = {} /\ ipc = [p \in Callers |-> "idle"]
    /\ kpc = "idle" /\ closing = 0 /\ nextBrowser = 1 /\ cycleLaunches = 0

UtilIdle == WrapIdle /\ RetryIdle /\ GenIdle /\ SchedIdle /\ BrowserIdle

ServiceIdle == BatchIdle /\ CleanupIdle /\ UtilIdle

\* the post p in hand at position at, every local as declared
StateWith(p, det, at, reported) ==
    /\ post = p
    /\ pc = at
    /\ pages = <<>>
    /\ remaining_zh = <<>> /\ remaining_en = <<>> /\ isFirstPage = TRUE
    /\ low = 1 /\ high = 0 /\ best_fit_size = 0 /\ hv = <<>> /\ probed = <<>>
    /\ lastFit = NoFit
    /\ i = 0 /\ commentQueue = <<>> /\ caught = {}
    /\ rem_zh = <<>> /\ rem_en = <<>> /\ isFirstChunk = TRUE /\ chunks = <<>>
    /\ pageComments = <<>> /\ grown = NoGrow /\ lastPack = NoPack
    /\ deterministic = det
    /\ oracle = reported /\ probes = <<>>
    /\ run = 1 /\ pc1 = "none" /\ pages1 = <<>> /\ probes1 = <<>>

\* the collaborator has reported nothing yet
StateAt(p, det, at) == StateWith(p, det, at, <<>>)

InitWith(p, det) == StateAt(p, det, "start") /\ CollabIdle /\ ServiceIdle

Init == \E p \in Posts : InitWith(p, FALSE)

\* ------------------------------------------------- the measuring collaborator
\* renderHTML followed by measureContentHeight on one record: the result is a
\* height or a throw; a deterministic collaborator repeats what it reported
\* for the same markup and selector
CallKey(templateName, data, selector) == <<renderHTML(templateName, data), selector>>

ProbeOutcomes(key, h) ==
    IF deterministic /\ key \in DOMAIN oracle THEN {oracle[key]} ELSE {h, THROW}

Called(key, out) ==
    IF deterministic
    THEN /\ oracle' = (key :> out) @@ oracle
         /\ probes' = Append(probes, <<key, out>>)
    ELSE UNCHANGED <<oracle, probes>>

\* the heights of the prefixes 1..n of a queue pair: any, but those of a
\* deterministic collaborator agree with what it reported before
PrefixHeights(n, keys) ==
    {h \in [1..n -> Heights] :
        deterministic =>
            /\ \A k \in 1..n :
                   keys[k] \in DOMAIN oracle /\ oracle[keys[k]] # THROW
                   => h[k] = oracle[keys[k]]
            /\ \A j, k \in 1..n : keys[j] = keys[k] => h[j] = h[k]}

\* ------------------------------------------------------- the binary search
\* (a slip: the sizes tried one after the other from the low end)
Mid_Low(lo, hi) == lo

\* const mid = Math.floor((low + high) / 2)
Mid(lo, hi) == (lo + hi) \div 2

\* (a slip: a height of 0 taken for a fit)
Fits_ZeroToo(height, limit) == height <= limit

\* (a slip: no upper limit on the height)
Fits_Unbounded(height, limit) == height > 0

\* if (height > 0 && height <= limit)
Fits(height, limit) == height > 0 /\ height <= limit

\* (a slip: after a size that does not fit the search goes on above it)
ProbeStep_RejectUp(lo, hi, best, mid, height, limit) ==
    IF Fits(height, limit)
    THEN [low |-> mid + 1, high |-> hi, best |-> mid]
    ELSE [low |-> mid + 1, high |-> hi, best |-> best]

\* (a slip: the first size that fits is kept, not the last)
ProbeStep_KeepFirst(lo, hi, best, mid, height, limit) ==
    IF Fits(height, limit)
    THEN [low |-> mid + 1, high |-> hi, best |-> IF best = 0 THEN mid ELSE best]
    ELSE [low |-> lo, high |-> mid - 1, best |-> best]

\* (a slip: after a height of 0 the search goes on above mid)
ProbeStep_ZeroUp(lo, hi, best, mid, height, limit) ==
    IF Fits(height, limit) \/ height = 0
    THEN [low |-> mid + 1, high |-> hi, best |-> IF height = 0 THEN best ELSE mid]
    ELSE [low |-> lo, high |-> mid - 1, best |-> best]

\* (a slip: the best fit recorded whether or not mid fits)
ProbeStep_AlwaysBest(lo, hi, best, mid, height, limit) ==
    IF Fits(height, limit)
    THEN [low |-> mid + 1, high |-> hi, best |-> mid]
    ELSE [low |-> lo, high |-> mid - 1, best |-> mid]

\* (a slip: the search resumed one past where it should)
ProbeStep_SkipOne(lo, hi, best, mid, height, limit) ==
    IF Fits(height, limit)
    THEN [low |-> mid + 2, high |-> hi, best |-> mid]
    ELSE [low |-> lo, high |-> mid - 1, best |-> best]

\* one probe of the search: mid measured height
ProbeStep(lo, hi, best, mid, height, limit) ==
    IF Fits(height, limit)
    THEN [low |-> mid + 1, high |-> hi, best |-> mid]
    ELSE [low |-> lo, high |-> mid - 1, best |-> best]

\* (a slip: no forced minimum)
ForcedSize_None(best) == best

\* if (best_fit_size === 0) best_fit_size = 1
ForcedSize(best) == IF best = 0 THEN 1 ELSE best

FitStart(n, keys) ==
    /\ \E h \in PrefixHeights(n, keys) : hv' = h
    /\ low' = 1 /\ high' = n /\ best_fit_size' = 0 /\ probed' = <<>>

FitReset == low' = 1 /\ high' = 0 /\ best_fit_size' = 0 /\ hv' = <<>> /\ probed' = <<>>

FitProbe(out, limit) ==
    LET mid == Mid(low, high)
        r == ProbeStep(low, high, best_fit_size, mid, out, limit)
    IN /\ low' = r.low /\ high' = r.high /\ best_fit_size' = r.best
       /\ probed' = Append(probed, mid)
       /\ hv' = hv

FitRecord(who, limit) ==
    [who |-> who, n |-> Len(hv), hv |-> hv, limit |-> limit,
     k |-> ForcedSize(best_fit_size), probed |-> probed]

\* -------------------------------------------------------- paginateMainContent
basePageData(p) ==
    [title |-> p.title, title_zh |-> OrStr(p.title_zh, p.title_polish_zh),
     ups |-> p.ups, subreddit |-> p.subreddit]

\* (a slip: the new page put in front of the emitted ones)
Push_Front(ps, pg) == <<pg>> \o ps

\* pages.push(page)
Push(ps, pg) == Append(ps, pg)

\* (a slip: the array kept across calls)
FreshPages_Stale == pages

\* const pages = []
FreshPages == <<>>

\* (a slip: every page tagged as the first)
PageType_AlwaysMain(first) == "main"

PageType(first) == IF first THEN "main" ELSE "main_continued"

MainPage(type, zh, en) ==
    [type |-> type, content_zh |-> Join(zh), content |-> Join(en)] @@ basePageData(post)

MainKey(k) ==
    CallKey("main-card", MainPage("main", Slice(remaining_zh, k), Slice(remaining_en, k)),
            MAIN_CONTENT_SELECTOR)

\* (a slip: the empty body given content fields)
EmptyBodyPage_WithContent == MainPage("main", <<>>, <<>>)

\* pages.push({ ...basePageData, type: 'main' })
EmptyBodyPage == [type |-> "main"] @@ basePageData(post)

PaginateStart ==
    /\ pc = "start"
    /\ LET paragraphs_zh == Paragraphs(post.selftext_zh)
           paragraphs_en == Paragraphs(post.selftext)
       IN IF paragraphs_zh = <<>> /\ paragraphs_en = <<>>
          THEN /\ pages' = Push(FreshPages, EmptyBodyPage)
               /\ UNCHANGED mainVars
               /\ pc' = "comments"
          ELSE /\ pages' = FreshPages
               /\ remaining_zh' = paragraphs_zh
               /\ remaining_en' = paragraphs_en
               /\ isFirstPage' = TRUE
               /\ pc' = "main_loop"
    /\ lastFit' = NoFit
    /\ UNCHANGED <<post, fitVars, i, commentQueue, caught, splitVars, pageComments, oracle, probes,
                   runVars, collabVars, serviceVars, packHist>>

MainFitStart ==
    /\ pc = "main_loop"
    /\ remaining_zh # <<>> \/ remaining_en # <<>>
    /\ LET n == Max(Len(remaining_zh), Len(remaining_en))
       IN FitStart(n, [k \in 1..n |-> MainKey(k)])
    /\ pc' = "main_probe"
    /\ lastFit' = NoFit
    /\ UNCHANGED <<post, pages, mainVars, i, commentQueue, caught, splitVars, pageComments, oracle,
                   probes, runVars, collabVars, serviceVars, packHist>>

MainProbe ==
    /\ pc = "main_probe"
    /\ low <= high
    /\ LET mid == Mid(low, high)
           key == MainKey(mid)
       IN \E out \in ProbeOutcomes(key, hv[mid]) :
            /\ Called(key, out)
            /\ IF out = THROW
               THEN pc' = "threw" /\ UNCHANGED fitVars
               ELSE pc' = pc /\ FitProbe(out, MAX_HEIGHT_MAIN_CONTENT)
    /\ lastFit' = NoFit
    /\ UNCHANGED <<post, pages, mainVars, i, commentQueue, caught, splitVars, pageComments,
                   runVars, collabVars, serviceVars, packHist>>

MainEmit ==
    /\ pc = "main_probe"
    /\ low > high
    /\ LET size == ForcedSize(best_fit_size)
           chunk_zh == Slice(remaining_zh, size)
           chunk_en == Slice(remaining_en, size)
       IN /\ pages' = Push(pages, MainPage(PageType(isFirstPage), chunk_zh, chunk_en))
          /\ isFirstPage' = FALSE
          /\ remaining_zh' = Rest(remaining_zh, size)
          /\ remaining_en' = Rest(remaining_en, size)
    /\ pc' = IF remaining_zh' # <<>> \/ remaining_en' # <<>> THEN "main_loop" ELSE "comments"
    /\ lastFit' = FitRecord("main", MAX_HEIGHT_MAIN_CONTENT)
    /\ FitReset
    /\ UNCHANGED <<post, i, commentQueue, caught, splitVars, pageComments, oracle, probes,
                   runVars, collabVars, serviceVars, packHist>>

\* ----------------------------------------------- paginateComments, step one
comments == post.commentList

WholeKey(comment) == CallKey("comment-card", [comments |-> <<comment>>], COMMENTS_SECTION_SELECTOR)

\* the comment at i is settled with queue q: on to the next one, or to packing
AfterComment(q) ==
    /\ commentQueue' = q
    /\ i' = i + 1
    /\ pc' = IF i + 1 <= Len(comments) THEN "c_measure" ELSE "pack"
    /\ rem_zh' = <<>> /\ rem_en' = <<>> /\ isFirstChunk' = TRUE /\ chunks' = <<>>

\* (a slip: the comment that failed is dropped)
CaughtQueue_Drop(q, comment) == q

\* (a slip: the chunks made before the throw are kept)
CaughtQueue_WithChunks(q, comment) == Append(q \o chunks, comment)

\* the catch of step one: commentQueue.push(comment)
CaughtQueue(q, comment) == Append(q, comment)

CommentsStart ==
    /\ pc = "comments"
    /\ IF comments = <<>>
       THEN pc' = "finish" /\ UNCHANGED <<i, commentQueue, caught>>
       ELSE pc' = "c_measure" /\ i' = 1 /\ commentQueue' = <<>> /\ caught' = {}
    /\ lastFit' = NoFit
    /\ UNCHANGED <<post, pages, mainVars, fitVars, splitVars, pageComments, oracle, probes,
                   runVars, collabVars, serviceVars, packHist>>

CommentMeasure ==
    /\ pc = "c_measure"
    /\ LET comment == comments[i]
           key == WholeKey(comment)
       IN \E h \in Heights : \E out \in ProbeOutcomes(key, h) :
            /\ Called(key, out)
            /\ IF out = THROW
               THEN AfterComment(CaughtQueue(commentQueue, comment))
               ELSE IF out > MAX_HEIGHT_SINGLE_COMMENT
               THEN LET pars_zh == smartSplitText(comment.body_zh)
                        pars_en == smartSplitText(comment.body)
                    IN IF pars_zh = <<>> /\ pars_en = <<>>
                       THEN AfterComment(commentQueue)
                       ELSE /\ rem_zh' = pars_zh /\ rem_en' = pars_en
                            /\ isFirstChunk' = TRUE /\ chunks' = <<>>
                            /\ pc' = "s_loop"
                            /\ UNCHANGED <<i, commentQueue>>
               ELSE AfterComment(Append(commentQueue, comment))
            /\ caught' = IF out = THROW THEN caught \cup {<<i, 0>>} ELSE caught
    /\ lastFit' = NoFit
    /\ UNCHANGED <<post, pages, mainVars, fitVars, pageComments, runVars, collabVars, serviceVars, packHist>>

\* ------------------------------------------------------------- splitComment
\* (a slip: no chunk flagged as a continuation)
ChunkOf_NeverContinuation(comment, zh, en, first) ==
    [isContinuation |-> FALSE]
    @@ [comment EXCEPT !.body_zh = Join(zh), !.body = Join(en)]

ChunkOf(comment, zh, en, first) ==
    [isContinuation |-> ~first]
    @@ [comment EXCEPT !.body_zh = Join(zh), !.body = Join(en)]

SplitKey(k) ==
    CallKey("comment-card",
            [comments |-> <<ChunkOf(comments[i], Slice(rem_zh, k), Slice(rem_en, k),
                                    isFirstChunk)>>],
            COMMENTS_SECTION_SELECTOR)

SplitFitStart ==
    /\ pc = "s_loop"
    /\ rem_zh # <<>> \/ rem_en # <<>>
    /\ LET n == Max(Len(rem_zh), Len(rem_en))
       IN FitStart(n, [k \in 1..n |-> SplitKey(k)])
    /\ pc' = "s_probe"
    /\ lastFit' = NoFit
    /\ UNCHANGED <<post, pages, mainVars, i, commentQueue, caught, splitVars, pageComments, oracle,
                   probes, runVars, collabVars, serviceVars, packHist>>

SplitProbe ==
    /\ pc = "s_probe"
    /\ low <= high
    /\ LET mid == Mid(low, high)
           key == SplitKey(mid)
       IN \E out \in ProbeOutcomes(key, hv[mid]) :
            /\ Called(key, out)
            /\ IF out = THROW
               THEN AfterComment(CaughtQueue(commentQueue, comments[i])) /\ FitReset
               ELSE /\ FitProbe(out, MAX_HEIGHT_SINGLE_COMMENT)
                    /\ UNCHANGED <<pc, i, commentQueue, splitVars>>
            /\ caught' = IF out = THROW THEN caught \cup {<<i, Len(chunks)>>} ELSE caught
    /\ lastFit' = NoFit
    /\ UNCHANGED <<post, pages, mainVars, pageComments, runVars, collabVars, serviceVars, packHist>>

SplitEmit ==
    /\ pc = "s_probe"
    /\ low > high
    /\ LET size == ForcedSize(best_fit_size)
           chunk == ChunkOf(comments[i], Slice(rem_zh, size), Slice(rem_en, size), isFirstChunk)
           left_zh == Rest(rem_zh, size)
           left_en == Rest(rem_en, size)
       IN IF left_zh # <<>> \/ left_en # <<>>
          THEN /\ chunks' = Append(chunks, chunk)
               /\ isFirstChunk' = FALSE
               /\ rem_zh' = left_zh /\ rem_en' = left_en
               /\ pc' = "s_loop"
               /\ UNCHANGED <<i, commentQueue>>
          ELSE AfterComment(commentQueue \o Append(chunks, chunk))
    /\ lastFit' = FitRecord("split", MAX_HEIGHT_SINGLE_COMMENT)
    /\ FitReset
    /\ UNCHANGED <<post, pages, mainVars, caught, pageComments, oracle, probes, runVars,
                   collabVars, serviceVars, packHist>>

\* ----------------------------------------------- paginateComments, step two
CommentsPage(list) ==
    [type |-> "comments", comments |-> list, title |-> OrStr(post.title_zh, post.title)]

PackKey(list) == CallKey("comment-card", CommentsPage(list), COMMENTS_SECTION_SELECTOR)

\* (a slip: the page closed at two comments)
PageFull_Two(list) == Len(list) >= 2

\* (a slip: the cap compared one too high)
PageFull_OneMore(list) == Len(list) > MAX_COMMENTS_PER_PAGE

\* if (pageComments.length >= 3) break
PageFull(list) == Len(list) >= MAX_COMMENTS_PER_PAGE

PackPageStart ==
    /\ pc = "pack"
    /\ IF commentQueue = <<>>
       THEN pc' = "finish"
       ELSE pc' = "p_probe"
    /\ pageComments' = <<>>
    /\ grown' = NoGrow /\ lastPack' = NoPack
    /\ lastFit' = NoFit
    /\ UNCHANGED <<post, pages, mainVars, fitVars, i, commentQueue, caught, splitVars, oracle, probes,
                   runVars, collabVars, serviceVars>>

PackProbe ==
    /\ pc = "p_probe"
    /\ commentQueue # <<>>
    /\ LET nextComment == Head(commentQueue)
           newPageComments == Append(pageComments, nextComment)
           key == PackKey(newPageComments)
       IN \E h \in Heights : \E out \in ProbeOutcomes(key, h) :
            /\ Called(key, out)
            /\ IF out # THROW /\ Fits(out, MAX_HEIGHT_COMMENTS)
               THEN /\ pageComments' = newPageComments
                    /\ commentQueue' = Tail(commentQueue)
                    /\ pc' = IF PageFull(pageComments') \/ commentQueue' = <<>>
                             THEN "p_commit" ELSE "p_probe"
                    /\ grown' = [n |-> Len(newPageComments), out |-> out, height |-> out]
               ELSE /\ pc' = "p_commit"
                    /\ grown' = [grown EXCEPT !.n = Len(newPageComments), !.out = out]
                    /\ UNCHANGED <<pageComments, commentQueue>>
    /\ lastFit' = NoFit
    /\ UNCHANGED <<post, pages, mainVars, fitVars, i, caught, splitVars, runVars, collabVars,
                   serviceVars, lastPack>>

\* the forced item of an empty page, and the push of the page
ForcedPage(list, queue) == IF list = <<>> /\ queue # <<>> THEN <<Head(queue)>> ELSE list

PackCommit ==
    /\ pc = "p_commit"
    /\ LET forced == pageComments = <<>> /\ commentQueue # <<>>
           list == ForcedPage(pageComments, commentQueue)
       IN /\ commentQueue' = IF forced THEN Tail(commentQueue) ELSE commentQueue
          /\ pages' = IF list # <<>> THEN Push(pages, CommentsPage(list)) ELSE pages
          /\ lastPack' = IF list # <<>>
                         THEN [n |-> Len(list), height |-> grown.height, forced |-> forced]
                         ELSE NoPack
    /\ pageComments' = <<>>
    /\ grown' = NoGrow
    /\ pc' = "pack"
    /\ lastFit' = NoFit
    /\ UNCHANGED <<post, mainVars, fitVars, i, caught, splitVars, oracle, probes, runVars,
                   collabVars, serviceVars>>

\* ------------------------------------------------------------------ paginate
DefaultPage == [type |-> "main"] @@ basePageData(post)

Finish ==
    /\ pc = "finish"
    /\ pages' = IF pages = <<>> THEN Push(pages, DefaultPage) ELSE pages
    /\ pc' = "done"
    /\ lastFit' = NoFit
    /\ UNCHANGED <<post, mainVars, fitVars, i, commentQueue, caught, splitVars, pageComments, oracle,
                   probes, runVars, collabVars, serviceVars, packHist>>

Terminated == pc \in {"done", "threw"}

Next ==
    \/ PaginateStart
    \/ MainFitStart \/ MainProbe \/ MainEmit
    \/ CommentsStart \/ CommentMeasure
    \/ SplitFitStart \/ SplitProbe \/ SplitEmit
    \/ PackPageStart \/ PackProbe \/ PackCommit
    \/ Finish

Spec == Init /\ [][Next]_vars

\* the same post paginated a second time against the same collaborator
Rerun ==
    /\ Terminated
    /\ run = 1
    /\ run' = 2 /\ pc1' = pc /\ pages1' = pages /\ probes1' = probes
    /\ probes' = <<>>
    /\ pc' = "start"
    /\ lastFit' = NoFit
    /\ i' = 0 /\ commentQueue' = <<>> /\ caught' = {} /\ pageComments' = <<>>
    /\ remaining_zh' = <<>> /\ remaining_en' = <<>> /\ isFirstPage' = TRUE
    /\ rem_zh' = <<>> /\ rem_en' = <<>> /\ isFirstChunk' = TRUE /\ chunks' = <<>>
    /\ FitReset
    /\ UNCHANGED <<post, pages, deterministic, oracle, collabVars, serviceVars, packHist>>

TwicePosts ==
    {PostOf(TextOf(EnLetters, 2, FALSE), TextOf(ZhLetters, 1, FALSE), <<>>),
     PostOf(<<>>, <<>>, <<CommentOf(1, 2, 1)>>)}

InitTwice == \E p \in TwicePosts : InitWith(p, TRUE)

NextTwice == Next \/ Rerun

SpecTwice == InitTwice /\ [][NextTwice]_vars

\* every await of paginate settles: the collaborator returns or throws
FairSpec == Spec /\ WF_vars(Next)

\* ------------------------------------------------------------- properties
IsMainPage(pg) == pg.type \in {"main", "main_continued"}
MainPagesOf(ps) == SelectSeq(ps, IsMainPage)
CommentPagesOf(ps) == SelectSeq(ps, LAMBDA pg : pg.type = "comments")

TextField(r, f) == IF Has(r, f) THEN r[f] ELSE <<>>

\* the paragraphs carried by the main pages of ps on one track, in page order
RECURSIVE CarriedParagraphs(_, _)
CarriedParagraphs(ps, f) ==
    IF ps = <<>> THEN <<>>
    ELSE (IF IsMainPage(Head(ps)) THEN Paragraphs(TextField(Head(ps), f)) ELSE <<>>)
         \o CarriedParagraphs(Tail(ps), f)

MainPaginationOver == pc \notin {"start", "main_loop", "main_probe", "threw"}

\* C1: the paragraphs carried by the main pages, in page order, followed by
\* the paragraphs still to place, are the paragraphs of the body (split at
\* newlines, blank ones dropped) on each track; when paginateMainContent has
\* returned nothing is left to place, so the pages alone reproduce the body.
C1_LosslessMainContent ==
    pc # "start" =>
        /\ CarriedParagraphs(pages, "content") \o remaining_en = Paragraphs(post.selftext)
        /\ CarriedParagraphs(pages, "content_zh") \o remaining_zh
               = Paragraphs(post.selftext_zh)
        /\ MainPaginationOver => remaining_en = <<>> /\ remaining_zh = <<>>

C1_Witness ==
    /\ pc = "done"
    /\ Len(MainPagesOf(pages)) >= 2
    /\ Len(Paragraphs(post.selftext)) = 3
    /\ Len(Paragraphs(post.selftext_zh)) = 1
    /\ Len(SplitOn(post.selftext, {NL})) > Len(Paragraphs(post.selftext))

\* a completed search f over heights f.hv
Completed(f) == f.who # "none"
FitsAt(f, k) == Fits(f.hv[k], f.limit)
WithinAt(f, k) == f.hv[k] <= f.limit
PositiveMonotone(f) ==
    /\ \A k \in 1..f.n : f.hv[k] > 0
    /\ \A j, k \in 1..f.n : j <= k => f.hv[j] <= f.hv[k]
ProbedOf(f) == {f.probed[j] : j \in 1..Len(f.probed)}

\* C2 as stated, for measurements that report no fault (every height > 0):
\* the returned k is within the limit whenever some k' of 1..n is, and is 1
\* otherwise
C2_AsStated ==
    Completed(lastFit) /\ (\A k \in 1..lastFit.n : lastFit.hv[k] > 0) =>
        IF \E k \in 1..lastFit.n : WithinAt(lastFit, k)
        THEN WithinAt(lastFit, lastFit.k)
        ELSE lastFit.k = 1

\* C2 (amended): the returned k fits (height > 0 and <= limit) whenever some
\* probed k' fit, and whenever the heights are positive and non-decreasing in
\* k and some k' of 1..n fits; when no probed k' fit, k = 1.
C2_ChunkValidity ==
    Completed(lastFit) =>
        /\ (\E k \in ProbedOf(lastFit) : FitsAt(lastFit, k)) => FitsAt(lastFit, lastFit.k)
        /\ PositiveMonotone(lastFit) /\ (\E k \in 1..lastFit.n : FitsAt(lastFit, k))
               => FitsAt(lastFit, lastFit.k)
        /\ (\A k \in ProbedOf(lastFit) : ~FitsAt(lastFit, k)) => lastFit.k = 1

C2_Witness ==
    /\ Completed(lastFit)
    /\ lastFit.n = 3
    /\ lastFit.k = 2
    /\ ~PositiveMonotone(lastFit)
    /\ FitsAt(lastFit, 2) /\ ~FitsAt(lastFit, 3)

\* C3: over positive heights that do not decrease in k the search returns the
\* largest k of 1..n whose height is within the limit, and 1 when none is.
C3_LargestFittingPrefix ==
    Completed(lastFit) /\ PositiveMonotone(lastFit) =>
        IF \E k \in 1..lastFit.n : WithinAt(lastFit, k)
        THEN /\ WithinAt(lastFit, lastFit.k)
             /\ \A k \in 1..lastFit.n : WithinAt(lastFit, k) => k <= lastFit.k
        ELSE lastFit.k = 1

C3_Witness ==
    /\ Completed(lastFit)
    /\ PositiveMonotone(lastFit)
    /\ lastFit.n = 3
    /\ lastFit.k = 2
    /\ lastFit.hv[1] < lastFit.hv[3]
    /\ ~WithinAt(lastFit, 3)

\* C4: no comments page, and no page being packed, holds more than 3 items.
C4_CountCap ==
    /\ \A j \in 1..Len(pages) :
          pages[j].type = "comments" => Len(pages[j].comments) <= MAX_COMMENTS_PER_PAGE
    /\ Len(pageComments) <= MAX_COMMENTS_PER_PAGE

C4_Witness ==
    /\ pc = "done"
    /\ \E j, k \in 1..Len(pages) :
          /\ j < k
          /\ pages[j].type = "comments" /\ Len(pages[j].comments) = MAX_COMMENTS_PER_PAGE
          /\ pages[k].type = "comments" /\ Len(pages[k].comments) = 1

NoBody == Paragraphs(post.selftext) = <<>> /\ Paragraphs(post.selftext_zh) = <<>>

IsPrefix(a, b) == Len(a) <= Len(b) /\ SubSeq(b, 1, Len(a)) = a

\* C6: a second run of paginate on the same post, against a collaborator that
\* reports the same for the same markup, makes the calls of the first run in
\* the same order and ends as the first did, with the same page sequence.
C6_Determinism ==
    run = 2 =>
        /\ IsPrefix(probes, probes1)
        /\ Terminated => pc = pc1 /\ pages = pages1 /\ probes = probes1

C6_Witness ==
    /\ run = 2
    /\ pc = "done"
    /\ Len(pages) >= 2
    /\ Len(probes) >= 3

\* the comments and chunks placed on the comments pages of ps, in page order
RECURSIVE PlacedItems(_)
PlacedItems(ps) ==
    IF ps = <<>> THEN <<>>
    ELSE (IF Head(ps).type = "comments" THEN Head(ps).comments ELSE <<>>)
         \o PlacedItems(Tail(ps))

ItemsOf(author) == SelectSeq(PlacedItems(pages), LAMBDA c : c.author = author)
IsChunk(c) == Has(c, "isContinuation")

\* the bodies of items on track f, the empty ones left out, joined by newlines
BodiesJoined(items, f) ==
    Join(SelectSeq([j \in 1..Len(items) |-> items[j][f]], LAMBDA t : t # <<>>))

\* C7 as stated: the chunk bodies of a split comment, joined by newlines in
\* emission order, are the comment's body, on each track
C7_AsStated ==
    pc = "done" =>
        \A j \in 1..Len(comments) :
            LET items == ItemsOf(comments[j].author)
            IN items # <<>> /\ IsChunk(items[1]) =>
                   /\ BodiesJoined(items, "body") = comments[j].body
                   /\ BodiesJoined(items, "body_zh") = comments[j].body_zh

AuthorsOf(items) == [j \in 1..Len(items) |-> items[j].author]

RECURSIVE Collapse(_)
Collapse(as) ==
    IF Len(as) <= 1 THEN as
    ELSE IF as[1] = as[2] THEN Collapse(Tail(as))
    ELSE <<as[1]>> \o Collapse(Tail(as))

RECURSIVE ItemParagraphs(_, _)
ItemParagraphs(items, f) ==
    IF items = <<>> THEN <<>>
    ELSE Paragraphs(Head(items)[f]) \o ItemParagraphs(Tail(items), f)

\* items is comment c whole, or c in chunks: each chunk is c but for its bodies
\* and its continuation flag, and the chunks carry c's paragraphs in order
WholeOrChunks(c, items) ==
    \/ items = <<c>>
    \/ /\ items # <<>>
       /\ \A j \in 1..Len(items) :
             /\ IsChunk(items[j])
             /\ DOMAIN items[j] = DOMAIN c \cup {"isContinuation"}
             /\ \A f \in DOMAIN c \ {"body", "body_zh"} : items[j][f] = c[f]
       /\ ItemParagraphs(items, "body") = smartSplitText(c.body)
       /\ ItemParagraphs(items, "body_zh") = smartSplitText(c.body_zh)

\* C8: the comments pages hold every comment of the list once, whole or as
\* its full chunk sequence in order, and the comments follow one another
\* across the pages as in the list.
C8_NoCommentLostOrReordered ==
    pc = "done" =>
        /\ Collapse(AuthorsOf(PlacedItems(pages))) = AuthorsOf(comments)
        /\ \A j \in 1..Len(comments) : WholeOrChunks(comments[j], ItemsOf(comments[j].author))

C8_Witness ==
    /\ pc = "done"
    /\ Len(comments) = 3
    /\ ItemsOf(comments[1].author) = <<comments[1]>>
    /\ Len(ItemsOf(comments[2].author)) = 2
    /\ IsChunk(ItemsOf(comments[2].author)[1])
    /\ ItemsOf(comments[3].author) = <<comments[3]>>

\* C9: in the page sequence no main-content page follows a comments page, the
\* first main-content page has type main and every later one main_continued.
C9_PageOrder ==
    \A j \in 1..Len(pages) :
        /\ pages[j].type = "comments" =>
               \A k \in j..Len(pages) : pages[k].type = "comments"
        /\ IsMainPage(pages[j]) => (pages[j].type = "main" <=> j = 1)

C9_Witness ==
    /\ pc = "done"
    /\ Len(MainPagesOf(pages)) >= 3
    /\ Len(CommentPagesOf(pages)) >= 1

LongerLeft(a, b) == Max(Len(a), Len(b))

\* each page or chunk emitted by a search takes an item off the longer queue
FitterProgress ==
    /\ pc = "main_probe" /\ low > high
           => LongerLeft(remaining_zh', remaining_en') < LongerLeft(remaining_zh, remaining_en)
    /\ pc = "s_probe" /\ low > high
           => LongerLeft(rem_zh', rem_en') < LongerLeft(rem_zh, rem_en)

\* each page of the packer has taken a comment off the queue when it is pushed
PackerProgress ==
    pc = "p_commit" =>
        /\ pageComments # <<>> \/ Len(commentQueue') < Len(commentQueue)
        /\ Len(pages') = Len(pages) + 1
        /\ pages'[Len(pages')].comments # <<>>

QueuesEmpty ==
    /\ remaining_zh = <<>> /\ remaining_en = <<>>
    /\ rem_zh = <<>> /\ rem_en = <<>>
    /\ commentQueue = <<>> /\ pageComments = <<>>

\* C10: paginate ends, whatever the heights and throws; when it returns every
\* queue is empty; every page or chunk a search emits shortens the longer
\* queue, and every page of the packer takes a comment off the queue.
C10_Termination ==
    /\ <>Terminated
    /\ [](pc = "done" => QueuesEmpty)
    /\ [][FitterProgress /\ PackerProgress]_vars

\* a search in which nothing fits, which the forced size of 1 moves on
C10_Witness ==
    /\ Completed(lastFit)
    /\ lastFit.n >= 2
    /\ \A k \in 1..lastFit.n : ~FitsAt(lastFit, k)
    /\ lastFit.k = 1
    /\ pc = "main_loop"

\* C11 as stated: no fault of the collaborator ends paginate by a throw; it
\* is never left rejected, whatever was being rendered or measured
C11_AsStated == pc # "threw"

\* the comments and chunks out of step one, wherever they are by now: on the
\* pages, on the page being packed, or still in the queue
HeldItems == PlacedItems(pages) \o pageComments \o commentQueue
HeldOf(author) == SelectSeq(HeldItems, LAMBDA c : c.author = author)

\* a comment whose processing threw is held once, whole and as it came
CaughtHeldWhole ==
    \A c \in caught : HeldOf(comments[c[1]].author) = <<comments[c[1]]>>

\* C12: when rendering, measuring or splitting a comment throws in step one,
\* the comment is enqueued once, unmodified and unsplit, with none of the
\* chunks made before the throw; the comments after it are processed and are
\* on the pages when paginate returns, which it does.
C12_UnsplitFallback ==
    /\ []CaughtHeldWhole
    /\ [](pc = "done" =>
            \A j \in 1..Len(comments) : ItemsOf(comments[j].author) # <<>>)
    /\ (caught # {}) ~> (pc = "done")

\* a comment of two paragraphs that threw after its first chunk was made,
\* with another comment after it
C12_Witness ==
    /\ pc = "done"
    /\ \E c \in caught : c[2] >= 1 /\ c[1] < Len(comments)

\* --------------------------------------------------------- preprocessPostData
MaxRaw == 13        \* comments of a post as received

\* the cap on comments read by the spec (the code holds it in
\* splitContentIntoPages only, not on the way to paginate)
MAX_COMMENTS_CONSIDERED == 12

\* validatePostData: true when it returns, false when it throws
validatePostData(p) ==
    /\ \A f \in {"id", "title", "subreddit", "name"} : Has(p, f) /\ p[f] # ""
    /\ \A f \in {"created", "ups"} : Has(p, f) /\ p[f] # 0
    /\ \A j \in 1..Len(p.commentList) :
          LET comment == p.commentList[j]
          IN Has(comment, "author") /\ comment.author # <<>>
             /\ Has(comment, "body") /\ comment.body # <<>>

\* Array.prototype.sort((a, b) => b.ups - a.ups), which is stable
RECURSIVE SortByUps(_)
SortByUps(cs) ==
    IF cs = <<>> THEN <<>>
    ELSE LET sorted == SortByUps(SubSeq(cs, 1, Len(cs) - 1))
             last == cs[Len(cs)]
             before == Cardinality({j \in 1..Len(sorted) : sorted[j].ups >= last.ups})
         IN SubSeq(sorted, 1, before) \o <<last>> \o SubSeq(sorted, before + 1, Len(sorted))

\* the comment as the map of preprocessPostData leaves it
CleanComment(comment) ==
    [body_zh |-> IF Has(comment, "body_zh") THEN comment.body_zh ELSE <<>>,
     author |-> Trim(comment.author)] @@ comment

\* the post as preprocessPostData returns it
preprocessPostData(p) ==
    LET kept == SelectSeq(p.commentList, LAMBDA c : Trim(c.body) # <<>>)
        cleaned == [j \in 1..Len(kept) |-> CleanComment(kept[j])]
    IN [p EXCEPT !.commentList = SortByUps(cleaned)]

\* the comments of a post as received (the request schema has let them in):
\* n of them, the scores falling, rising or all equal, comment blankAt with a
\* body of white space
RawComment(j, order, blank) ==
    LET withBody ==
            [author |-> IF j = 2 THEN <<" ", "u", ToString(j)>> ELSE <<"u", ToString(j)>>,
             body |-> IF blank THEN <<" ", NL>> ELSE <<EnLetters[1]>>,
             ups |-> CASE order = "falling" -> 100 - j
                       [] order = "rising" -> j
                       [] OTHER -> 5]
    IN IF j % 2 = 0 THEN withBody ELSE [body_zh |-> <<ZhLetters[1]>>] @@ withBody

\* posts as received, with a score of 0 when zeroUps
RawPosts ==
    {[name |-> "t3_1", created |-> 1, ups |-> IF zeroUps THEN 0 ELSE 7]
       @@ PostOf(<<>>, <<>>, [j \in 1..n |-> RawComment(j, order, j = blankAt)]) :
        n \in 0..MaxRaw, order \in {"falling", "rising", "equal"},
        blankAt \in 0..MaxRaw, zeroUps \in BOOLEAN}

\* app.js: postList.map(post => imageGenerator.preprocessPostData(post)); the
\* post returned is the one generatePostCards hands to paginate
Preprocess ==
    /\ pc = "raw"
    /\ IF validatePostData(post)
       THEN post' = preprocessPostData(post) /\ pc' = "start"
       ELSE post' = post /\ pc' = "invalid"
    /\ UNCHANGED <<pages, mainVars, fitVars, lastFit, i, commentQueue, caught, splitVars,
                   pageComments, oracle, probes, runVars, collabVars, serviceVars, packHist>>

InitIntake == \E p \in RawPosts : StateAt(p, FALSE, "raw") /\ CollabIdle /\ ServiceIdle

SpecIntake == InitIntake /\ [][Preprocess]_vars

\* C13 as stated: the comments handed to paginate have bodies that are not
\* blank, stand in descending order of score, and are at most 12
C13_AsStated ==
    pc = "start" =>
        /\ \A j \in 1..Len(comments) : Trim(comments[j].body) # <<>>
        /\ \A j, k \in 1..Len(comments) : j <= k => comments[j].ups >= comments[k].ups
        /\ Len(comments) <= MAX_COMMENTS_CONSIDERED

\* C14 as stated: for a post without body paragraphs and with at least one
\* comment, main pagination emits nothing, and every page that paginate
\* returns is a comments page
C14_AsStated ==
    NoBody /\ comments # <<>> =>
        /\ pc = "comments" => pages = <<>>
        /\ pc = "done" => \A j \in 1..Len(pages) : pages[j].type = "comments"

\* the chunks in items are flagged in order: the first is no continuation,
\* every later one is
FlaggedInOrder(items) ==
    \A k \in 1..Len(items) : IsChunk(items[k]) => (items[k].isContinuation <=> k > 1)

\* C15: of the chunks splitComment makes of a comment, while it makes them
\* and after it has returned them, the first has isContinuation false and
\* every later one has it true, forced or not.
C15_ContinuationFlag ==
    /\ FlaggedInOrder(chunks)
    /\ \A k \in 1..Len(chunks) : IsChunk(chunks[k])
    /\ pc \in {"s_loop", "s_probe"} => (isFirstChunk <=> chunks = <<>>)
    /\ \A j \in 1..Len(comments) : FlaggedInOrder(HeldOf(comments[j].author))

\* a comment just returned by splitComment in two chunks, the second forced
C15_Witness ==
    /\ pc \in {"c_measure", "pack"}
    /\ Completed(lastFit) /\ lastFit.who = "split"
    /\ \A k \in 1..lastFit.n : ~FitsAt(lastFit, k)
    /\ i > 1
    /\ Len(HeldOf(comments[i - 1].author)) = 2
    /\ HeldOf(comments[i - 1].author)[2].isContinuation

\* ------------------------------------------------------------------ renderHTML
MaxRenderPars == 7  \* paragraphs per track of a record handed to renderHTML

\* k paragraphs, all different
ParsOf(letter, k) == [j \in 1..k |-> <<letter, ToString(j)>>]

\* the records paginateMainContent, splitComment and paginateComments hand to
\* renderHTML: a main page of kz and ke paragraphs, a page of 1 to 3 comments
RenderCalls ==
    {[templateName |-> "main-card",
      data |-> [type |-> "main", content_zh |-> Unlines(ParsOf("p", kz)),
                content |-> Unlines(ParsOf("a", ke))]
               @@ basePageData(PostOf(<<>>, <<>>, <<>>))] :
        kz \in 0..MaxRenderPars, ke \in 0..MaxRenderPars}
    \cup
    {[templateName |-> "comment-card",
      data |-> [type |-> "comments", title |-> "T",
                comments |-> [j \in 1..c |-> CleanComment(RawComment(j, "falling", FALSE))]]] :
        c \in 1..MAX_COMMENTS_PER_PAGE}

\* one call of renderHTML: the markup, or the Error thrown when the template
\* cannot be loaded or compiled or applied
Render ==
    /\ renderedHtml = NoRender
    /\ \/ renderedHtml' = [status |-> "ok",
                           html |-> renderHTML(renderData.templateName, renderData.data)]
       \/ renderedHtml' = [status |-> "threw"]
    /\ UNCHANGED <<post, pc, pages, mainVars, fitVars, lastFit, i, commentQueue, caught,
                   splitVars, pageComments, oracle, probes, runVars,
                   renderData, mpc, openPages, mres, mcalls, serviceVars, packHist>>

InitRender ==
    /\ StateAt(PostOf(<<>>, <<>>, <<>>), FALSE, "start")
    /\ renderData \in RenderCalls /\ renderedHtml = NoRender
    /\ mpc = "idle" /\ openPages = 0 /\ mres = NONE /\ mcalls = 0
    /\ ServiceIdle

SpecRender == InitRender /\ [][Render]_vars

\* the list under field f that the template is given
ListGiven(d, f) == IF Has(d, f) THEN d[f] ELSE <<>>

\* C16 as stated: the data the template is applied to holds every paragraph
\* of each content track and every comment of the record handed to renderHTML
C16_AsStated ==
    renderedHtml.status = "ok" =>
        LET d == renderData.data
            given == renderedHtml.html.data
        IN /\ Has(d, "content_zh") =>
                  ListGiven(given, "content_zh_paragraphs") = Paragraphs(d.content_zh)
           /\ Has(d, "content") =>
                  ListGiven(given, "content_paragraphs") = Paragraphs(d.content)
           /\ Has(d, "comments") => Len(given.comments) = Len(d.comments)

\* ------------------------------------------------------- measureContentHeight
MaxCalls == 3       \* calls of measureContentHeight in a row

\* the awaits between browser.newPage() and the try block, in order
LayoutSteps == <<"setViewport", "readFile", "setContent", "fontsReady">>

AfterLayoutStep(step) ==
    LET k == CHOOSE j \in 1..Len(LayoutSteps) : LayoutSteps[j] = step
    IN IF k < Len(LayoutSteps) THEN LayoutSteps[k + 1] ELSE "evaluate"

measureRest == <<post, pc, pages, mainVars, fitVars, lastFit, i, commentQueue, caught,
                 splitVars, pageComments, oracle, probes, runVars, renderData, renderedHtml,
                 serviceVars, packHist>>

\* the call rejects at the await where it stands: nothing after it is run
MeasureThrows == mpc' = mpc /\ mres' = THROW

\* the call is under way
Measuring == mpc # "idle" /\ mres # THROW

MeasureCall ==
    /\ ~Measuring
    /\ mcalls < MaxCalls
    /\ mpc' = "initBrowser" /\ mres' = NONE /\ mcalls' = mcalls + 1
    /\ UNCHANGED <<openPages, measureRest>>

\* const browser = await renderer.initBrowser()
MeasureInitBrowser ==
    /\ Measuring /\ mpc = "initBrowser"
    /\ \/ mpc' = "newPage" /\ mres' = mres
       \/ MeasureThrows
    /\ UNCHANGED <<openPages, mcalls, measureRest>>

\* const page = await browser.newPage()
MeasureNewPage ==
    /\ Measuring /\ mpc = "newPage"
    /\ \/ mpc' = LayoutSteps[1] /\ mres' = mres /\ openPages' = openPages + 1
       \/ MeasureThrows /\ openPages' = openPages
    /\ UNCHANGED <<mcalls, measureRest>>

\* setViewport, readFile of the css, setContent, document.fonts.ready
MeasureLayout ==
    /\ Measuring /\ mpc \in {LayoutSteps[j] : j \in 1..Len(LayoutSteps)}
    /\ \/ mpc' = AfterLayoutStep(mpc) /\ mres' = mres
       \/ MeasureThrows
    /\ UNCHANGED <<openPages, mcalls, measureRest>>

\* try { height = await page.evaluate(...); return height } catch { return 0 }
MeasureEvaluate ==
    /\ Measuring /\ mpc = "evaluate"
    /\ \/ \E height \in Heights : mres' = height
       \/ mres' = 0
    /\ mpc' = "close"
    /\ UNCHANGED <<openPages, mcalls, measureRest>>

\* finally { await page.close() }: the value is returned, unless close rejects
MeasureClose ==
    /\ Measuring /\ mpc = "close"
    /\ \/ mpc' = "idle" /\ mres' = mres /\ openPages' = openPages - 1
       \/ MeasureThrows /\ openPages' \in {openPages, openPages - 1}
    /\ UNCHANGED <<mcalls, measureRest>>

InitMeasure == StateAt(PostOf(<<>>, <<>>, <<>>), FALSE, "start") /\ CollabIdle /\ ServiceIdle

NextMeasure ==
    \/ MeasureCall \/ MeasureInitBrowser \/ MeasureNewPage
    \/ MeasureLayout \/ MeasureEvaluate \/ MeasureClose

SpecMeasure == InitMeasure /\ [][NextMeasure]_vars

\* the last call of measureContentHeight has returned or thrown
MeasureSettled == mcalls > 0 /\ ~Measuring

\* the steps of laying out the markup: opening the page, loading the css,
\* setting the content, waiting for the fonts, evaluating
LayingOut == {"newPage", "readFile", "setContent", "fontsReady", "evaluate"}

\* C17 as stated: a call of measureContentHeight returns a height, 0 when a
\* step of laying out the markup failed; it does not throw at such a step
C17_AsStated == MeasureSettled /\ mres = THROW => mpc \notin LayingOut

\* C18 as stated: when a call of measureContentHeight has returned or thrown
\* no page that a call opened is still open
C18_AsStated == MeasureSettled => openPages = 0

\* ------------------------------------------------------------ append-only
\* the pages before a step are the first pages after it, and at most one is new
AppendsOnly(before, after) ==
    /\ Len(after) \in {Len(before), Len(before) + 1}
    /\ SubSeq(after, 1, Len(before)) = before

\* C19: a step of paginate leaves the page sequence alone or appends one page
\* at its end: the pages emitted so far stay, in place and unchanged
C19_AppendOnly == [][AppendsOnly(pages, pages')]_vars

\* a finished run that emitted main pages and then comments pages
C19_Witness ==
    /\ pc = "done"
    /\ Len(pages) >= 3
    /\ pages[1].type = "main"
    /\ pages[2].type = "main_continued"
    /\ pages[Len(pages)].type = "comments"

\* ------------------------------------------------- heights given by the count
\* a collaborator whose reported height of a main card depends only on how
\* many paragraphs the card holds: f[k] for k paragraphs
HeightByCount == [1..MaxPars -> {400, 850, 1300}]

\* the runs of consecutive paragraphs of a body of n paragraphs: <<first, count>>
Windows(n) == {w \in (1..n) \X (1..n) : w[1] + w[2] - 1 <= n}

\* the record paginateMainContent measures for a run of paragraphs
WindowKey(zh, en, w) ==
    CallKey("main-card",
            MainPage("main", SubSeq(zh, w[1], Min(w[1] + w[2] - 1, Len(zh))),
                             SubSeq(en, w[1], Min(w[1] + w[2] - 1, Len(en)))),
            MAIN_CONTENT_SELECTOR)

\* what such a collaborator reports for every run of paragraphs of the body
ReportedByCount(zh, en, f) ==
    LET ws == Windows(Max(Len(zh), Len(en)))
    IN [key \in {WindowKey(zh, en, w) : w \in ws} |->
            f[(CHOOSE w \in ws : WindowKey(zh, en, w) = key)[2]]]

\* bodies of k paragraphs, in English alone or with as many in Chinese, with
\* no comment or one comment of two paragraphs
ExamplePosts ==
    {PostOf(TextOf(EnLetters, k, FALSE), TextOf(ZhLetters, IF both THEN k ELSE 0, FALSE), cl) :
        k \in 0..MaxPars, both \in BOOLEAN,
        cl \in {<<>>, <<CommentOf(1, 2, 1)>>}}

InitExample ==
    \E p \in ExamplePosts, f \in HeightByCount :
        /\ StateWith(p, TRUE, "start",
                     ReportedByCount(Paragraphs(p.selftext_zh), Paragraphs(p.selftext), f))
        /\ CollabIdle /\ ServiceIdle

SpecExample == InitExample /\ [][Next]_vars

\* the worked example: body paragraphs [A, B, C], no second language, and a
\* collaborator reporting 400 for one paragraph, 850 for two, 1300 for three
ExampleHeight == <<400, 850, 1300>>

IsWorkedExample ==
    /\ post.selftext = TextOf(EnLetters, 3, FALSE)
    /\ post.selftext_zh = <<>>
    /\ \A w \in Windows(3) :
         LET key == WindowKey(<<>>, Paragraphs(post.selftext), w)
         IN key \in DOMAIN oracle /\ oracle[key] = ExampleHeight[w[2]]

\* main-content pagination is over
AfterMain == pc \notin {"start", "main_loop", "main_probe", "threw"}

ExamplePages ==
    <<MainPage("main", <<>>, <<<<"a">>>>),
      MainPage("main_continued", <<>>, <<<<"b">>>>),
      MainPage("main_continued", <<>>, <<<<"c">>>>)>>

\* C20: body [A, B, C] measured 400 for one paragraph, 850 for two and 1300
\* for three, limit 800: main-content pagination never throws and yields
\* exactly the pages [A], [B], [C], typed main, main_continued, main_continued
C20_WorkedExample ==
    IsWorkedExample =>
        /\ pc # "threw"
        /\ AfterMain => MainPagesOf(pages) = ExamplePages
                        /\ SubSeq(pages, 1, 3) = ExamplePages

\* the worked example paginated to its end
C20_Witness ==
    /\ IsWorkedExample
    /\ pc = "done"
    /\ Len(MainPagesOf(pages)) = 3

\* ------------------------------------------------------------- page count
\* C21 as stated: a finished paginate has produced at least 2 and at most 4
\* pages
C21_AsStated == pc = "done" => Len(pages) >= 2 /\ Len(pages) <= 4

\* ------------------------------------------------------- generateBatchCards
MaxBatch == 3       \* posts of a batch

PostIds == {"t1", "t2"}

\* the batches: up to MaxBatch posts, a post id may come twice
Batches == UNION {[1..n -> PostIds] : n \in 0..MaxBatch}

\* what generatePostCards comes to for a post: a result with one image per
\* page, or a throw out of paginate or out of rendering or saving a page
PostOutcomes ==
    {[ok |-> TRUE, images |-> n, error |-> ""] : n \in 1..2}
    \cup {[ok |-> FALSE, images |-> 0, error |-> e] :
             e \in {"paginate threw", "Failed to generate page 1"}}

\* (a slip: the failure not recorded)
Failed_Dropped(errs, postId, message) == errs

\* errors.push({ postId: post.id, error: error.message })
Failed(errs, postId, message) == Append(errs, [postId |-> postId, error |-> message])

RECURSIVE SumImages(_)
SumImages(rs) == IF rs = <<>> THEN 0 ELSE Head(rs).images + SumImages(Tail(rs))

batchRest == <<post, pc, pages, mainVars, fitVars, lastFit, i, commentQueue, caught,
               splitVars, pageComments, oracle, probes, runVars, collabVars, cleanupVars,
               utilVars, packHist>>

\* generateBatchCards(posts, options): const results = [], errors = []
BatchCall ==
    /\ bpc = "idle"
    /\ posts' \in Batches
    /\ results' = <<>> /\ errors' = <<>> /\ attempted' = <<>>
    /\ bpc' = "loop"
    /\ UNCHANGED <<returned, batchRest>>

\* one turn of the loop: try { results.push(await generatePostCards(post)) }
\* catch (error) { errors.push(...) }
BatchPost ==
    /\ bpc = "loop"
    /\ Len(attempted) < Len(posts)
    /\ LET id == posts[Len(attempted) + 1]
       IN \E out \in PostOutcomes :
            /\ attempted' = Append(attempted, [postId |-> id, ok |-> out.ok])
            /\ IF out.ok
               THEN /\ results' = Append(results, [postId |-> id, images |-> out.images])
                    /\ errors' = errors
               ELSE /\ errors' = Failed(errors, id, out.error)
                    /\ results' = results
    /\ UNCHANGED <<bpc, posts, returned, batchRest>>

\* return { successful: results, failed: errors, summary: { ... } }
BatchReturn ==
    /\ bpc = "loop"
    /\ Len(attempted) = Len(posts)
    /\ returned' = [status |-> "ok", successful |-> results, failed |-> errors,
                    summary |-> [totalPosts |-> Len(posts),
                                 successCount |-> Len(results),
                                 failureCount |-> Len(errors),
                                 totalImages |-> SumImages(results)]]
    /\ bpc' = "returned"
    /\ UNCHANGED <<posts, attempted, results, errors, batchRest>>

InitBatch ==
    StateAt(PostOf(<<>>, <<>>, <<>>), FALSE, "start") /\ CollabIdle /\ ServiceIdle

NextBatch == BatchCall \/ BatchPost \/ BatchReturn

SpecBatch == InitBatch /\ [][NextBatch]_vars

\* every call of generateBatchCards returns
FairBatch == SpecBatch /\ WF_vars(BatchPost) /\ WF_vars(BatchReturn)

IdsOf(rs) == [j \in 1..Len(rs) |-> rs[j].postId]

IsOk(a) == a.ok
IsNotOk(a) == ~a.ok

\* the posts so far are the first posts of the batch in order, each one in
\* results when generatePostCards returned and in errors when it threw
EachPostOnce ==
    /\ Len(attempted) <= Len(posts)
    /\ IdsOf(attempted) = SubSeq(posts, 1, Len(attempted))
    /\ IdsOf(results) = IdsOf(SelectSeq(attempted, IsOk))
    /\ IdsOf(errors) = IdsOf(SelectSeq(attempted, IsNotOk))

BatchSummed ==
    bpc = "returned" =>
        /\ Len(attempted) = Len(posts)
        /\ returned.successful = results /\ returned.failed = errors
        /\ returned.summary.totalPosts = Len(posts)
        /\ returned.summary.successCount + returned.summary.failureCount
               = returned.summary.totalPosts

\* C22: generateBatchCards hands every post to generatePostCards in order,
\* whatever the earlier posts came to; each post ends in exactly one of
\* successful and failed, the counts of the summary add up to totalPosts, and
\* the call returns, a throwing post notwithstanding
C22_PartialFailure ==
    /\ [](EachPostOnce /\ BatchSummed)
    /\ (bpc = "loop") ~> (bpc = "returned")

\* a returned batch in which a post failed and a later post succeeded
C22_Witness ==
    /\ bpc = "returned"
    /\ \E j, k \in 1..Len(attempted) : j < k /\ ~attempted[j].ok /\ attempted[k].ok
    /\ returned.summary.failureCount >= 1 /\ returned.summary.successCount >= 1

\* --------------------------------------------------------- cleanupOldImages
MaxFiles == 2       \* files in the image directory

MS_PER_DAY == 24 * 60 * 60 * 1000

\* Date.now() when the run starts
Now == 10 * MS_PER_DAY

CARD_PREFIX == <<"r", "e", "d", "d", "i", "t", "_", "c", "a", "r", "d", "_">>
PNG_SUFFIX == <<".", "p", "n", "g">>

\* the characters the dot of a regular expression does not match
LineTerminators == {NL, "\r"}

StartsWith(name, prefix) ==
    Len(name) >= Len(prefix) /\ SubSeq(name, 1, Len(prefix)) = prefix

EndsWith(name, suffix) ==
    Len(name) >= Len(suffix)
    /\ SubSeq(name, Len(name) - Len(suffix) + 1, Len(name)) = suffix

\* filePattern: /^reddit_card_.*\.png$/ tested on a file name
filePattern(name) ==
    /\ Len(name) >= Len(CARD_PREFIX) + Len(PNG_SUFFIX)
    /\ StartsWith(name, CARD_PREFIX)
    /\ EndsWith(name, PNG_SUFFIX)
    /\ \A j \in (Len(CARD_PREFIX) + 1)..(Len(name) - Len(PNG_SUFFIX)) :
           name[j] \notin LineTerminators

\* file names: a card of post a, a card of the post with the empty id, a jpg,
\* a name with something before reddit_card_, a card of the post whose id is
\* "a\nb"
FileNames ==
    {CARD_PREFIX \o <<"a", "_", "1">> \o PNG_SUFFIX,
     CARD_PREFIX \o PNG_SUFFIX,
     CARD_PREFIX \o <<"a", "_", "1">> \o <<".", "j", "p", "g">>,
     <<"x">> \o CARD_PREFIX \o <<"a", "_", "1">> \o PNG_SUFFIX,
     CARD_PREFIX \o <<"a", NL, "b", "_", "1">> \o PNG_SUFFIX}

\* modification times: just written, a day old to the millisecond, a
\* millisecond older, over two days old
FileTimes == {Now, Now - MS_PER_DAY, Now - MS_PER_DAY - 1, Now - 2 * MS_PER_DAY - 1}

\* the image directories: at most MaxFiles files with different names
Directories ==
    {d \in SUBSET [name : FileNames, mtime : FileTimes] :
        /\ Cardinality(d) <= MaxFiles
        /\ \A f, g \in d : f.name = g.name => f = g}

cutoffTime == Now - retentionDays * MS_PER_DAY

\* a file that threw is not counted
Bump_NoErrors(s, field) == IF field = "errors" THEN s ELSE [s EXCEPT ![field] = @ + 1]

\* stats.filesScanned++ and the like
Bump(s, field) == [s EXCEPT ![field] = @ + 1]

cleanupRest == <<post, pc, pages, mainVars, fitVars, lastFit, i, commentQueue, caught,
                 splitVars, pageComments, oracle, probes, runVars, collabVars, batchVars,
                 utilVars, packHist>>

\* fs.access, the cutoff, fs.readdir
CleanupCall ==
    /\ cpc = "idle"
    /\ imageDir0' = imageDir
    /\ stats' = NoStats /\ refused' = {}
    /\ \/ imageDir = {} /\ cpc' = "returned" /\ files' = <<>>
       \/ cpc' = "threw" /\ files' = <<>>
       \/ /\ cpc' = "scan"
          /\ \E order \in [1..Cardinality(imageDir) -> imageDir] :
               /\ \A j, k \in DOMAIN order : order[j] = order[k] => j = k
               /\ files' = order
    /\ UNCHANGED <<imageDir, retentionDays, cleanupRest>>

\* one turn of the loop over the listing
CleanupFile ==
    /\ cpc = "scan"
    /\ files # <<>>
    /\ LET file == Head(files)
           scanned == Bump(stats, "filesScanned")
       IN IF ~filePattern(file.name)
          THEN /\ stats' = Bump(scanned, "filesSkipped")
               /\ UNCHANGED <<imageDir, refused>>
          ELSE \/ \* fs.stat throws
                  /\ stats' = Bump(scanned, "errors")
                  /\ refused' = refused \cup {file.name}
                  /\ imageDir' = imageDir
               \/ /\ file.mtime < cutoffTime
                  /\ \/ \* fs.unlink
                        /\ imageDir' = imageDir \ {file}
                        /\ stats' = Bump(scanned, "filesDeleted")
                        /\ refused' = refused
                     \/ \* fs.unlink throws
                        /\ stats' = Bump(scanned, "errors")
                        /\ refused' = refused \cup {file.name}
                        /\ imageDir' = imageDir
               \/ /\ ~(file.mtime < cutoffTime)
                  /\ stats' = Bump(scanned, "filesSkipped")
                  /\ UNCHANGED <<imageDir, refused>>
    /\ files' = Tail(files)
    /\ UNCHANGED <<cpc, imageDir0, retentionDays, cleanupRest>>

\* return stats
CleanupReturn ==
    /\ cpc = "scan"
    /\ files = <<>>
    /\ cpc' = "returned"
    /\ UNCHANGED <<imageDir, imageDir0, files, retentionDays, refused, stats, cleanupRest>>

InitCleanup ==
    /\ StateAt(PostOf(<<>>, <<>>, <<>>), FALSE, "start") /\ CollabIdle /\ BatchIdle /\ UtilIdle
    /\ cpc = "idle" /\ imageDir \in Directories /\ imageDir0 = {} /\ files = <<>>
    /\ retentionDays \in {1, 2} /\ refused = {} /\ stats = NoStats

NextCleanup == CleanupCall \/ CleanupFile \/ CleanupReturn

SpecCleanup == InitCleanup /\ [][NextCleanup]_vars

\* the name matches reddit_card_*.png
IsCardName(name) ==
    /\ Len(name) >= Len(CARD_PREFIX) + Len(PNG_SUFFIX)
    /\ StartsWith(name, CARD_PREFIX)
    /\ EndsWith(name, PNG_SUFFIX)

Expired(file) == file.mtime < Now - retentionDays * MS_PER_DAY

\* C23 as stated: when a run of cleanupOldImages has returned, a file the run
\* found is gone if and only if its name matches reddit_card_*.png, it is
\* older than the retention period and neither stat nor unlink threw on it
C23_AsStated ==
    cpc = "returned" =>
        \A file \in imageDir0 :
            file \notin imageDir
            <=> IsCardName(file.name) /\ Expired(file) /\ file.name \notin refused

\* ------------------------------------------------------ overflow and stops
WithinBudget(height, limit) == height > 0 /\ height <= limit

\* the paragraphs of the longer track of a main page or of a comment item
ItemsOfPage(pg) ==
    Max(Len(Paragraphs(TextField(pg, "content"))), Len(Paragraphs(TextField(pg, "content_zh"))))
ItemsOfChunk(c) ==
    Max(Len(Paragraphs(TextField(c, "body"))), Len(Paragraphs(TextField(c, "body_zh"))))

\* the chunk that the search completed by the last step has produced
LastChunk == IF chunks # <<>> THEN chunks[Len(chunks)] ELSE commentQueue[Len(commentQueue)]

\* a search that settled on two or more items probed that size and measured
\* it within the limit
FittedWhenSeveral ==
    Completed(lastFit) /\ lastFit.k >= 2 =>
        /\ lastFit.k <= lastFit.n
        /\ lastFit.k \in ProbedOf(lastFit)
        /\ WithinBudget(lastFit.hv[lastFit.k], lastFit.limit)

\* the page or chunk just built holds what the search settled on
BuiltAsFitted ==
    /\ lastFit.who = "main" =>
          /\ lastFit.limit = MAX_HEIGHT_MAIN_CONTENT
          /\ pages # <<>> /\ ItemsOfPage(pages[Len(pages)]) = lastFit.k
    /\ lastFit.who = "split" =>
          /\ lastFit.limit = MAX_HEIGHT_SINGLE_COMMENT
          /\ ItemsOfChunk(LastChunk) = lastFit.k

\* the comments of the page being packed were measured together and within
\* the budget; a pushed page of two or more comments likewise
PackedWithinBudget ==
    /\ pageComments # <<>> =>
          WithinBudget(grown.height, MAX_HEIGHT_COMMENTS) /\ grown.n >= Len(pageComments)
    /\ lastPack # NoPack =>
          /\ pages # <<>> /\ pages[Len(pages)].type = "comments"
          /\ Len(pages[Len(pages)].comments) = lastPack.n
          /\ lastPack.forced => lastPack.n = 1 /\ lastPack.height = NONE
          /\ ~lastPack.forced => WithinBudget(lastPack.height, MAX_HEIGHT_COMMENTS)
          /\ lastPack.n >= 2 => WithinBudget(lastPack.height, MAX_HEIGHT_COMMENTS)

\* C24: a main page of two or more paragraphs, a comment chunk of two or more
\* paragraphs and a comments page of two or more comments were measured, as
\* they stand, with a height > 0 and within their budget; only what holds a
\* single item can have been taken without fitting
C24_OverflowOnlySingle == FittedWhenSeveral /\ BuiltAsFitted /\ PackedWithinBudget

\* a comments page of two comments has just been pushed
C24_Witness ==
    /\ pc = "pack"
    /\ lastPack.n = 2 /\ lastPack.height = 850
    /\ \E j \in 1..Len(pages) : pages[j].type = "comments" /\ Len(pages[j].comments) = 1

\* the tentative list of the last probe was the page with the head of the
\* queue, and it was measured not to fit or measuring it threw
HeadRejected ==
    /\ commentQueue # <<>>
    /\ grown.n = Len(pageComments) + 1
    /\ grown.out \in Outcomes
    /\ ~WithinBudget(grown.out, MAX_HEIGHT_COMMENTS)

\* C25: the page being packed stops growing only when the queue is empty, or
\* the page holds 3 items, or the page with the head of the queue was
\* measured at a height that is not positive or over the budget, or measuring
\* it threw; and every comments page pushed holds at least one item
C25_PackerStop ==
    /\ pc = "p_commit" =>
          \/ commentQueue = <<>>
          \/ Len(pageComments) = MAX_COMMENTS_PER_PAGE
          \/ HeadRejected
    /\ \A j \in 1..Len(pages) :
          pages[j].type = "comments" => Len(pages[j].comments) >= 1
    /\ lastPack # NoPack => lastPack.n >= 1

\* a page of one comment closed because the page with the next comment was
\* measured too tall, after an earlier page of one comment
C25_Witness ==
    /\ pc = "p_commit"
    /\ Len(pageComments) = 1 /\ HeadRejected /\ grown.out = 1300
    /\ \E j \in 1..Len(pages) : pages[j].type = "comments" /\ Len(pages[j].comments) = 1

\* ------------------------------------------------------------ height of 0
Searching == pc \in {"main_probe", "s_probe"} /\ low <= high

\* this step is a probe of the search under way that measured 0
ProbedZero ==
    /\ Searching
    /\ probed' = Append(probed, Mid(low, high))
    /\ hv[Mid(low, high)] = 0

\* such a step keeps the best fit, moves high below mid and stays in the search
ZeroStep ==
    ProbedZero =>
        /\ best_fit_size' = best_fit_size
        /\ high' = Mid(low, high) - 1
        /\ low' = low
        /\ pc' = pc

\* in the search under way and in a completed one, every probe after a probe
\* that measured 0 is of a smaller size
SmallerAfterZero(ps, heights) ==
    \A j, k \in 1..Len(ps) : j < k /\ heights[ps[j]] = 0 => ps[k] < ps[j]

\* C26: a probe at k that measures 0 leaves the best fit as it was and sets
\* high to k - 1, every later probe of the search is below k, and the search
\* goes on to its end
C26_ZeroDoesNotFit ==
    /\ [][ZeroStep]_vars
    /\ [](pc \in {"main_probe", "s_probe"} => SmallerAfterZero(probed, hv))
    /\ [](Completed(lastFit) => SmallerAfterZero(lastFit.probed, lastFit.hv))

\* a completed search over 3 items that measured 0 at 2 and went on to 1
C26_Witness ==
    /\ Completed(lastFit)
    /\ lastFit.n = 3
    /\ lastFit.probed = <<2, 1>>
    /\ lastFit.hv[2] = 0 /\ lastFit.hv[1] = 400
    /\ lastFit.k = 1

\* ------------------------------------------------- the search on its own
MaxItems == 6       \* items offered to one search

fitterRest == <<post, pages, mainVars, i, commentQueue, caught, splitVars, pageComments,
                oracle, probes, runVars, collabVars, serviceVars, packHist>>

\* let low = 1, high = Math.max(remaining_zh.length, remaining_en.length),
\* best_fit_size = 0, over n items of any heights
FitterStart ==
    /\ pc = "fit_start"
    /\ \E n \in 1..MaxItems : \E h \in [1..n -> Heights] :
         /\ hv' = h
         /\ low' = 1 /\ high' = n /\ best_fit_size' = 0 /\ probed' = <<>>
    /\ pc' = "fit_probe"
    /\ UNCHANGED <<lastFit, fitterRest>>

\* one turn of while (low <= high)
FitterProbe ==
    /\ pc = "fit_probe"
    /\ low <= high
    /\ FitProbe(hv[Mid(low, high)], MAX_HEIGHT_MAIN_CONTENT)
    /\ UNCHANGED <<pc, lastFit, fitterRest>>

\* the loop is left: if (best_fit_size === 0) best_fit_size = 1
FitterEnd ==
    /\ pc = "fit_probe"
    /\ low > high
    /\ lastFit' = FitRecord("main", MAX_HEIGHT_MAIN_CONTENT)
    /\ pc' = "fit_done"
    /\ UNCHANGED <<fitVars, fitterRest>>

InitFitter ==
    StateAt(PostOf(<<>>, <<>>, <<>>), FALSE, "fit_start") /\ CollabIdle /\ ServiceIdle

NextFitter == FitterStart \/ FitterProbe \/ FitterEnd

SpecFitter == InitFitter /\ [][NextFitter]_vars

RECURSIVE FloorLog2(_)
FloorLog2(n) == IF n <= 1 THEN 0 ELSE 1 + FloorLog2(n \div 2)

\* the sizes ps probed over n items: each of 1..n, none twice, and no more
\* than floor(log2(n)) + 1 of them
ProbeBudget(ps, n) ==
    /\ \A j \in 1..Len(ps) : ps[j] >= 1 /\ ps[j] <= n
    /\ \A j, k \in 1..Len(ps) : ps[j] = ps[k] => j = k
    /\ Len(ps) <= FloorLog2(n) + 1

\* C27: in one search over n >= 1 items every probed size is in 1..n, no size
\* is probed twice and at most floor(log2(n)) + 1 sizes are probed, whatever
\* the heights measured
C27_ProbeBudget ==
    /\ pc = "fit_probe" => ProbeBudget(probed, Len(hv))
    /\ Completed(lastFit) => lastFit.n >= 1 /\ ProbeBudget(lastFit.probed, lastFit.n)

\* a completed search over 6 items that used its 3 probes
C27_Witness ==
    /\ Completed(lastFit)
    /\ lastFit.n = 6
    /\ Len(lastFit.probed) = FloorLog2(6) + 1
    /\ \E k \in 1..6 : lastFit.hv[k] = 0

\* --------------------------------------------- the worked example, probes
\* the second search of the worked example: [B, C] left to place
SecondSearch ==
    /\ IsWorkedExample
    /\ remaining_en = <<<<"b">>, <<"c">>>> /\ remaining_zh = <<>>
    /\ pc = "main_probe"

\* C28 as stated: in the second search of the worked example the first probe
\* is mid = 2, which is rejected and sets high = 1, and the second probe is
\* mid = 1, which is accepted
C28_AsStated ==
    /\ SecondSearch =>
          \/ probed = <<>> /\ Mid(low, high) = 2
          \/ probed = <<2>> /\ high = 1 /\ best_fit_size = 0 /\ Mid(low, high) = 1
          \/ probed = <<2, 1>> /\ best_fit_size = 1
    /\ IsWorkedExample /\ lastFit.who = "main" /\ Len(pages) = 2 =>
          lastFit.probed = <<2, 1>>

\* C28 (amended): in the second search of the worked example (remaining
\* [B, C], limit 800, one paragraph 400, two 850) the first probe is
\* mid = floor((1 + 2) / 2) = 1, which is accepted and sets low = 2, and the
\* second probe is mid = 2, which is rejected and sets high = 1; the page
\* built is [B], main_continued
C28_ProbeOrder ==
    /\ SecondSearch =>
          /\ hv = <<400, 850>>
          /\ \/ probed = <<>> /\ low = 1 /\ high = 2 /\ best_fit_size = 0
                             /\ Mid(low, high) = 1
             \/ probed = <<1>> /\ low = 2 /\ high = 2 /\ best_fit_size = 1
                              /\ Mid(low, high) = 2
             \/ probed = <<1, 2>> /\ low = 2 /\ high = 1 /\ best_fit_size = 1
    /\ IsWorkedExample /\ lastFit.who = "main" /\ Len(pages) = 2 =>
          /\ lastFit.n = 2 /\ lastFit.limit = 800
          /\ lastFit.probed = <<1, 2>>
          /\ lastFit.hv[1] = 400 /\ lastFit.hv[2] = 850
          /\ lastFit.k = 1
          /\ pages[2] = MainPage("main_continued", <<>>, <<<<"b">>>>)

\* the second search of the worked example has just built its page
C28_Witness ==
    /\ IsWorkedExample
    /\ lastFit.who = "main" /\ Len(pages) = 2
    /\ lastFit.probed = <<1, 2>>
    /\ remaining_en = <<<<"c">>>>

\* ------------------------------------------------ the earlier variant (v2.1)
\* const mid = Math.ceil((low + high) / 2)
MidCeil(lo, hi) == (lo + hi + 1) \div 2

\* the v2.1 loop: if (height <= MAX_HEIGHT_MAIN_CONTENT) { bestFit = the first
\* mid items; low = mid + 1 } else { high = mid - 1 }; best is the number of
\* items of bestFit
RECURSIVE V21Search(_, _, _, _, _)
V21Search(lo, hi, best, heights, limit) ==
    IF lo > hi THEN best
    ELSE LET mid == MidCeil(lo, hi)
         IN IF heights[mid] <= limit
            THEN V21Search(mid + 1, hi, mid, heights, limit)
            ELSE V21Search(lo, mid - 1, best, heights, limit)

\* if bestFit is empty, bestFit = the first item
V21Size(heights, n, limit) ==
    LET best == V21Search(1, n, 0, heights, limit)
    IN IF best = 0 THEN 1 ELSE best

\* C29: over heights that are positive and do not decrease in k, the search
\* (floor midpoint, v3.0) settles on the chunk size that the v2.1 search
\* (ceiling midpoint, last good fit) settles on for the same heights, so the
\* two cut the same pages step by step
C29_VariantEquivalence ==
    Completed(lastFit) /\ PositiveMonotone(lastFit) =>
        lastFit.k = V21Size(lastFit.hv, lastFit.n, lastFit.limit)

\* a completed search over 6 items of which the first 3 fit, where the two
\* variants start from different midpoints
C29_Witness ==
    /\ Completed(lastFit) /\ PositiveMonotone(lastFit)
    /\ lastFit.n = 6
    /\ lastFit.k = 3
    /\ lastFit.hv[3] = 400 /\ lastFit.hv[4] = 850 /\ lastFit.hv[6] = 1300
    /\ lastFit.probed[1] # MidCeil(1, 6)

\* ------------------------------------------------- segmenting the post body
\* posts whose body tracks are short texts of 0..MaxPars paragraphs, with or
\* without a blank line, or one paragraph of two long sentences
SegmentPosts ==
    {PostOf(en, zh, <<>>) : en \in BodyTexts(EnLetters) \cup {LongText},
                            zh \in BodyTexts(ZhLetters) \cup {LongText}}

InitSegment == \E p \in SegmentPosts : InitWith(p, FALSE)

\* the first lines of paginateMainContent, up to the first search
SpecSegment == InitSegment /\ [][PaginateStart]_vars

\* C30 as stated: the items paginateMainContent offers to the search for a
\* post body are smartSplitText of each track, as in splitComment
C30_AsStated ==
    pc = "main_loop" =>
        /\ remaining_en = smartSplitText(post.selftext)
        /\ remaining_zh = smartSplitText(post.selftext_zh)

\* ------------------------------------------------- re-packing by sentences
MaxSentences == 3   \* sentences in the long paragraph of a text

\* the lengths of a sentence: 0 stands for a blank one; 74 + 1 + 74 + 1 is the
\* target length, 74 + 1 + 75 + 1 is one over it, 360 is over it alone
SentenceLens == {0, 74, 75, 360}

\* a paragraph of sentences of the given lengths, each closed by a period
RECURSIVE SentencesOf(_)
SentencesOf(lens) ==
    IF lens = <<>> THEN <<>>
    ELSE (IF Head(lens) = 0 THEN <<" ">> ELSE Rep(<<"a">>, Head(lens)))
         \o <<".">> \o SentencesOf(Tail(lens))

\* comment bodies of one paragraph of 1..MaxSentences sentences, alone or
\* followed by a second, short paragraph
SentenceTexts ==
    {SentencesOf(lens) \o tail :
        lens \in UNION {[1..m -> SentenceLens] : m \in 1..MaxSentences},
        tail \in {<<>>, <<NL, "b">>}}

InitSplitText ==
    \E t \in SentenceTexts :
        /\ StateAt(PostOf(<<>>, <<>>, <<[author |-> Authors[1], body |-> t,
                                         body_zh |-> <<>>, ups |-> 9]>>),
                   FALSE, "text")
        /\ CollabIdle /\ ServiceIdle

\* const pars_zh = smartSplitText(comment.body_zh || ''),
\*       pars_en = smartSplitText(comment.body || '')
SplitTexts ==
    /\ pc = "text"
    /\ rem_zh' = smartSplitText(post.commentList[1].body_zh)
    /\ rem_en' = smartSplitText(post.commentList[1].body)
    /\ pc' = "segmented"
    /\ UNCHANGED <<post, pages, mainVars, fitVars, lastFit, i, commentQueue, caught,
                   isFirstChunk, chunks, pageComments, oracle, probes, runVars,
                   collabVars, serviceVars, packHist>>

SpecSplitText == InitSplitText /\ [][SplitTexts]_vars

\* the sentences packed into a paragraph: each one was closed by a full stop
SentencesIn(p) == Cardinality({k \in 1..Len(p) : p[k] = FULL_STOP})

\* the paragraphs of the output that the re-packing made: those that are not
\* a paragraph of the text handed on as it was
Repacked(text, out) ==
    {k \in 1..Len(out) : \A j \in 1..Len(Paragraphs(text)) : out[k] # Paragraphs(text)[j]}

\* C31: every paragraph that smartSplitText makes by re-packing the sentences
\* of a long paragraph is non-blank and either holds a single sentence or is
\* at most 150 characters long
C31_RepackBound ==
    pc = "segmented" =>
        \A k \in Repacked(post.commentList[1].body, rem_en) :
            /\ Len(Trim(rem_en[k])) > 0
            /\ SentencesIn(rem_en[k]) = 1 \/ Len(rem_en[k]) <= SPLIT_TARGET_LENGTH

\* a text of three sentences was re-packed into a paragraph of two sentences
\* that is exactly 150 long, followed by a single sentence longer than that
C31_Witness ==
    /\ pc = "segmented"
    /\ Len(rem_en) = 2
    /\ Repacked(post.commentList[1].body, rem_en) = {1, 2}
    /\ SentencesIn(rem_en[1]) = 2 /\ Len(rem_en[1]) = SPLIT_TARGET_LENGTH
    /\ SentencesIn(rem_en[2]) = 1 /\ Len(rem_en[2]) > SPLIT_TARGET_LENGTH

\* ------------------------------------------------------------- smartSplit
MaxChars == 5       \* characters of a text handed to smartSplit

\* two characters of U+4E00..U+9FFF, written by their code points
WideChars == {"u4E2D", "u6587"}
LatinLetters ==
    {"a", "b", "c", "d", "e", "f", "g", "h", "i", "j", "k", "l", "m",
     "n", "o", "p", "q", "r", "s", "t", "u", "v", "w", "x", "y", "z",
     "A", "B", "C", "D", "E", "F", "G", "H", "I", "J", "K", "L", "M",
     "N", "O", "P", "Q", "R", "S", "T", "U", "V", "W", "X", "Y", "Z"}
PunctuationMarks ==
    {",", ".", "!", "?", ";", ":",
     "uFF0C", FULL_STOP, "uFF01", "uFF1F", "uFF1B", "uFF1A", "u3001"}

isChinese(char) == char \in WideChars
isEnglish(char) == char \in LatinLetters
isPunctuation(char) == char \in PunctuationMarks

\* every character taken for a wide one
charType_AllWide(char) == "chinese"

\* the if/else chain at the head of the loop body
charType(char) ==
    IF isChinese(char) THEN "chinese"
    ELSE IF isEnglish(char) THEN "english"
    ELSE IF char = " " THEN "space"
    ELSE IF isPunctuation(char) THEN "punctuation"
    ELSE "other"

\* const result = []; let current = ''; let lastType = null
SplitStart == [result |-> <<>>, current |-> <<>>, lastType |-> "null"]

\* if (current.trim()) result.push(current)
PushCurrent(st) ==
    IF Len(Trim(st.current)) > 0 THEN Append(st.result, st.current) ELSE st.result

\* a wide character joins the run before it: nothing closes a run
SplitChar_Merge(st, char) ==
    [st EXCEPT !.current = @ \o <<char>>, !.lastType = charType(char)]

\* one turn of the loop over the characters
SplitChar(st, char) ==
    LET currentType == charType(char)
        grown1 == [st EXCEPT !.current = @ \o <<char>>]
        closed == [st EXCEPT !.result = PushCurrent(st), !.current = <<char>>]
        s1 == IF st.lastType # "null" /\ st.lastType # currentType
              THEN IF st.lastType = "english" /\ currentType = "space" THEN grown1
                   ELSE IF st.lastType = "space" /\ currentType = "english" THEN grown1
                   ELSE IF currentType = "chinese" THEN closed
                   ELSE IF st.lastType = "chinese" THEN closed
                   ELSE grown1
              ELSE grown1
        s2 == [s1 EXCEPT !.lastType = currentType]
    IN IF currentType = "chinese" /\ Len(s2.current) > 1
       THEN [s2 EXCEPT !.result = Append(@, SubSeq(s2.current, 1, Len(s2.current) - 1)),
                       !.current = <<char>>]
       ELSE s2

RECURSIVE SplitFrom(_, _)
SplitFrom(st, text) ==
    IF text = <<>> THEN st ELSE SplitFrom(SplitChar(st, Head(text)), Tail(text))

\* smartSplit(text): the loop, the last run, the filter
smartSplit(text) == NonBlank(PushCurrent(SplitFrom(SplitStart, text)))

\* texts of 0..MaxChars characters of every class: wide, letter, space,
\* punctuation, other (a line feed, which trim() removes)
WrapChars == WideChars \cup {"h", "i", " ", ",", NL}
WrapTexts == UNION {[1..n -> WrapChars] : n \in 0..MaxChars}

InitWrap ==
    /\ StateAt(PostOf(<<>>, <<>>, <<>>), FALSE, "wrap")
    /\ CollabIdle /\ BatchIdle /\ CleanupIdle /\ RetryIdle /\ GenIdle /\ SchedIdle
    /\ BrowserIdle
    /\ wrapInput \in WrapTexts /\ words = <<>>

\* wrapText: const words = smartSplit(text)
WrapSplit ==
    /\ pc = "wrap"
    /\ words' = smartSplit(wrapInput)
    /\ pc' = "wrapped"
    /\ UNCHANGED <<post, pages, mainVars, fitVars, lastFit, i, commentQueue, caught,
                   splitVars, pageComments, oracle, probes, runVars, collabVars,
                   batchVars, cleanupVars, wrapInput, retryVars, genVars, schedVars,
                   browserVars, packHist>>

SpecWrap == InitWrap /\ [][WrapSplit]_vars

\* the segments that are one wide character, in order
WideSegments == SelectSeq(words, LAMBDA w : Len(w) = 1 /\ isChinese(w[1]))

\* C32: every wide character of the text is a segment of its own, in the
\* order of the text; no segment holds a wide character and anything else;
\* no segment is empty or only whitespace
C32_WideSingletons ==
    pc = "wrapped" =>
        /\ JoinNoSep(WideSegments) = SelectSeq(wrapInput, isChinese)
        /\ \A k \in 1..Len(words) :
              /\ Len(Trim(words[k])) > 0
              /\ \A j \in 1..Len(words[k]) : isChinese(words[k][j]) => Len(words[k]) = 1

\* two neighbouring wide characters, a letter with a space, a wide character:
\* four segments, the wide ones alone
C32_Witness ==
    /\ pc = "wrapped"
    /\ wrapInput = <<"u4E2D", "u6587", "h", " ", "u4E2D">>
    /\ words = << <<"u4E2D">>, <<"u6587">>, <<"h", " ">>, <<"u4E2D">> >>

\* for each character of the text s, the segment of ws that holds it, counted
\* from k, or 0 when it was dropped with a blank run
RECURSIVE Owner(_, _, _)
Owner(ws, s, k) ==
    IF s = <<>> THEN <<>>
    ELSE IF ws # <<>> /\ IsPrefix(Head(ws), s)
         THEN [j \in 1..Len(Head(ws)) |-> k]
              \o Owner(Tail(ws), SubSeq(s, Len(Head(ws)) + 1, Len(s)), k + 1)
         ELSE <<0>> \o Owner(ws, Tail(s), k)

\* C33: no letter is dropped, and two letters with nothing but letters and
\* spaces between them are in the same segment: words separated by spaces
\* make one segment and no word is split
C33_WordsKept ==
    pc = "wrapped" =>
        LET o == Owner(words, wrapInput, 1)
        IN /\ Len(o) = Len(wrapInput)
           /\ \A a \in 1..Len(wrapInput) : isEnglish(wrapInput[a]) => o[a] # 0
           /\ \A a, b \in 1..Len(wrapInput) :
                 (/\ a < b
                  /\ isEnglish(wrapInput[a]) /\ isEnglish(wrapInput[b])
                  /\ \A j \in a..b : isEnglish(wrapInput[j]) \/ wrapInput[j] = " ")
                 => o[a] = o[b]

\* two words with a space between them came out as the one segment
C33_Witness ==
    /\ pc = "wrapped"
    /\ wrapInput = <<"h", "i", " ", "h", "i">>
    /\ words = << <<"h", "i", " ", "h", "i">> >>

\* ---------------------------------------------------------- retryOperation
MaxRetries == 3     \* the largest maxRetries handed to retryOperation

\* what operation() resolves to and the messages of what it rejects with
OpValues == {"v1", "v2"}
OpMessages == {"e1", "e2"}

\* maxRetries and delay: 2 and 500 for rendering, 3 and 1000 for saving and
\* by default, and every other maxRetries from 1 with either delay
RetryArgs == (1..MaxRetries) \X {500, 1000}

\* new AppError(`Operation failed after ${maxRetries} attempts:
\* ${lastError.message}`, 500)
RetryError(n, message) ==
    [name |-> "AppError", statusCode |-> 500,
     message |-> <<"Operation failed after", n, "attempts:", message>>]

\* the break is never taken
IsLastAttempt_Never(a, n) == FALSE

\* if (attempt === maxRetries) break
IsLastAttempt(a, n) == a = n

retryRest == <<post, pc, pages, mainVars, fitVars, lastFit, i, commentQueue, caught,
               splitVars, pageComments, oracle, probes, runVars, collabVars, batchVars,
               cleanupVars, wrapVars, genVars, schedVars, browserVars, packHist>>

\* retryOperation(operation, maxRetries, delay): let lastError; attempt = 1
RetryCall ==
    /\ rpc = "idle"
    /\ \E a \in RetryArgs : maxRetries' = a[1] /\ delay' = a[2]
    /\ attempt' = 1 /\ lastError' = "undefined"
    /\ rlog' = <<>> /\ rret' = NoReturn
    /\ rpc' = "loop"
    /\ UNCHANGED retryRest

\* the loop test: operation() is called, or the loop is left and the throw
\* after it is reached
RetryLoop ==
    /\ rpc = "loop"
    /\ IF attempt <= maxRetries
       THEN /\ rlog' = Append(rlog, [ev |-> "call", attempt |-> attempt])
            /\ rpc' = "await"
            /\ rret' = rret
       ELSE /\ rret' = [status |-> "threw", error |-> RetryError(maxRetries, lastError)]
            /\ rpc' = "threw"
            /\ rlog' = rlog
    /\ UNCHANGED <<maxRetries, delay, attempt, lastError, retryRest>>

\* await operation() resolves: return result
RetryResolve ==
    /\ rpc = "await"
    /\ \E v \in OpValues :
         /\ rlog' = Append(rlog, [ev |-> "ok", value |-> v])
         /\ rret' = [status |-> "returned", value |-> v]
    /\ rpc' = "returned"
    /\ UNCHANGED <<maxRetries, delay, attempt, lastError, retryRest>>

\* await operation() rejects: lastError = error, then the break and the throw
\* after the loop, or the wait
RetryReject ==
    /\ rpc = "await"
    /\ \E e \in OpMessages :
         /\ rlog' = Append(rlog, [ev |-> "err", message |-> e])
         /\ lastError' = e
         /\ IF IsLastAttempt(attempt, maxRetries)
            THEN /\ rret' = [status |-> "threw", error |-> RetryError(maxRetries, e)]
                 /\ rpc' = "threw"
            ELSE /\ rret' = rret
                 /\ rpc' = "wait"
    /\ UNCHANGED <<maxRetries, delay, attempt, retryRest>>

\* await new Promise(resolve => setTimeout(resolve, delay * attempt)); attempt++
RetryWait ==
    /\ rpc = "wait"
    /\ rlog' = Append(rlog, [ev |-> "wait", ms |-> delay * attempt])
    /\ attempt' = attempt + 1
    /\ rpc' = "loop"
    /\ UNCHANGED <<maxRetries, delay, lastError, rret, retryRest>>

InitRetry ==
    /\ StateAt(PostOf(<<>>, <<>>, <<>>), FALSE, "start")
    /\ CollabIdle /\ BatchIdle /\ CleanupIdle /\ UtilIdle

NextRetry == RetryCall \/ RetryLoop \/ RetryResolve \/ RetryReject \/ RetryWait

SpecRetry == InitRetry /\ [][NextRetry]_vars

\* the entries of the log of one kind
LogOf(kind) == SelectSeq(rlog, LAMBDA x : x.ev = kind)

\* C34: operation is called at most maxRetries times, one call at a time;
\* nothing follows a call that resolved and its value is what is returned;
\* the throw comes after maxRetries rejected calls, is an AppError of status
\* 500 with the message of the last rejection, and no wait lies between the
\* last rejection and it
C34_BoundedRetry ==
    /\ Len(LogOf("call")) <= maxRetries
    /\ \A k \in 1..Len(rlog) :
          /\ rlog[k].ev = "call" /\ k < Len(rlog) => rlog[k + 1].ev \in {"ok", "err"}
          /\ rlog[k].ev \in {"ok", "err"} => k > 1 /\ rlog[k - 1].ev = "call"
          /\ rlog[k].ev = "ok" => k = Len(rlog) /\ rpc = "returned" /\ rret.value = rlog[k].value
    /\ rpc = "returned" => rlog # <<>> /\ rlog[Len(rlog)].ev = "ok"
    /\ rpc = "threw" =>
          /\ Len(LogOf("call")) = maxRetries
          /\ Len(LogOf("err")) = maxRetries
          /\ rlog[Len(rlog)].ev = "err"
          /\ rret.status = "threw"
          /\ rret.error.name = "AppError" /\ rret.error.statusCode = 500
          /\ rret.error.message[4] = rlog[Len(rlog)].message

\* three attempts of three failed with different messages, with two waits
\* between them, and the throw carries the last message
C34_Witness ==
    /\ rpc = "threw" /\ maxRetries = 3
    /\ Len(LogOf("wait")) = 2
    /\ rlog[2].message = "e1" /\ rlog[Len(rlog)].message = "e2"
    /\ rret.error.message[4] = "e2"

\* -------------------------------------------------------- generatePostCards
MaxGenPages == 3    \* pages that paginate hands to generatePostCards

\* the types of the pages of a post: a main page, its continuations, then the
\* comment pages
PageTypeLists ==
    {ts \in UNION {[1..n -> {"main", "main_continued", "comments"}] : n \in 1..MaxGenPages} :
        /\ ts[1] = "main"
        /\ \A k \in 2..Len(ts) : ts[k] # "main" /\ (ts[k - 1] = "comments" => ts[k] = "comments")}

\* pages numbered from 0
pageIndexOf_ZeroBased(k) == k

\* const pageIndex = i + 1
pageIndexOf(k) == k + 1

\* `reddit_card_${post.id}_${timestamp}_${pageIndex}.png`
CardFile(id, pageIndex) == CARD_PREFIX \o <<id, "_", "ts", "_", pageIndex>> \o PNG_SUFFIX

\* new ImageGenerationError(`Failed to generate page ${pageIndex}:
\* ${error.message}`, post.id), error being what retryOperation threw
PageError(pageIndex, n, message, id) ==
    [name |-> "ImageGenerationError", statusCode |-> 500, postId |-> id,
     message |-> <<"Failed to generate page", pageIndex, RetryError(n, message).message>>]

\* what retryOperation(operation, n, delay) comes to: it returns at attempt
\* 1..n, or throws after n attempts with the last message
RetryOutcomes(n) ==
    {[ok |-> TRUE, attempts |-> a, message |-> ""] : a \in 1..n}
    \cup {[ok |-> FALSE, attempts |-> n, message |-> e] : e \in OpMessages}

genRest == <<post, pc, pages, mainVars, fitVars, lastFit, i, commentQueue, caught,
             splitVars, pageComments, oracle, probes, runVars, collabVars, batchVars,
             cleanupVars, wrapVars, retryVars, schedVars, browserVars, packHist>>

\* const pages = await paginationService.paginate(post), which may throw (the
\* outer catch throws the error on); const results = []; i = 0
GenCall ==
    /\ gpc = "idle"
    /\ gresults' = <<>> /\ glog' = <<>> /\ gi' = 0
    /\ \/ /\ gpages' \in PageTypeLists
          /\ gpc' = "render" /\ gret' = NoReturn
       \/ /\ gpages' = <<>>
          /\ gpc' = "threw"
          /\ gret' = [status |-> "threw", error |-> [name |-> "Error", message |-> <<"paginate">>]]
    /\ UNCHANGED genRest

\* await retryOperation(() => renderer.renderCard(templateName, pageData, ..), 2, 500)
GenRender ==
    /\ gpc = "render"
    /\ \E out \in RetryOutcomes(2) :
         /\ glog' = Append(glog, [step |-> "render", pageIndex |-> pageIndexOf(gi),
                                  ok |-> out.ok, attempts |-> out.attempts])
         /\ IF out.ok
            THEN gpc' = "save" /\ gret' = gret
            ELSE /\ gpc' = "threw"
                 /\ gret' = [status |-> "threw",
                             error |-> PageError(pageIndexOf(gi), 2, out.message, post.id)]
    /\ UNCHANGED <<gpages, gi, gresults, genRest>>

\* await retryOperation(mkdir and writeFile, 3, 1000); results.push(..); i++;
\* after the last page the return
GenSave ==
    /\ gpc = "save"
    /\ \E out \in RetryOutcomes(3) :
         /\ glog' = Append(glog, [step |-> "save", pageIndex |-> pageIndexOf(gi),
                                  ok |-> out.ok, attempts |-> out.attempts])
         /\ IF out.ok
            THEN LET pushed == Append(gresults,
                                      [filename |-> CardFile(post.id, pageIndexOf(gi)),
                                       pageType |-> gpages[gi + 1],
                                       pageIndex |-> pageIndexOf(gi)])
                 IN /\ gresults' = pushed
                    /\ gi' = gi + 1
                    /\ IF gi + 1 < Len(gpages)
                       THEN gpc' = "render" /\ gret' = gret
                       ELSE /\ gpc' = "returned"
                            /\ gret' = [status |-> "returned", postId |-> post.id,
                                        images |-> pushed, totalPages |-> Len(gpages)]
            ELSE /\ gpc' = "threw"
                 /\ gret' = [status |-> "threw",
                             error |-> PageError(pageIndexOf(gi), 3, out.message, post.id)]
                 /\ UNCHANGED <<gresults, gi>>
    /\ UNCHANGED <<gpages, genRest>>

InitGen ==
    /\ StateAt(PostOf(<<>>, <<>>, <<>>), FALSE, "start")
    /\ CollabIdle /\ BatchIdle /\ CleanupIdle /\ UtilIdle

NextGen == GenCall \/ GenRender \/ GenSave

SpecGen == InitGen /\ [][NextGen]_vars

\* C35: the steps taken are render 1, save 1, render 2, save 2, ..; a step
\* that failed after its retries is the last one taken and the call threw an
\* ImageGenerationError, handing back no images; a call that returned holds
\* one image per page, in page order, and totalPages is their number
C35_AllOrNothing ==
    /\ \A k \in 1..Len(glog) :
          /\ glog[k].pageIndex = (k + 1) \div 2
          /\ glog[k].pageIndex \in 1..Len(gpages)
          /\ glog[k].step = (IF k % 2 = 1 THEN "render" ELSE "save")
          /\ ~glog[k].ok =>
                /\ k = Len(glog)
                /\ gpc = "threw"
                /\ gret.status = "threw" /\ gret.error.name = "ImageGenerationError"
                /\ gret.error.message[2] = glog[k].pageIndex
                /\ "images" \notin DOMAIN gret
    /\ gpc = "returned" =>
          /\ Len(glog) = 2 * Len(gpages)
          /\ Len(gret.images) = Len(gpages)
          /\ gret.totalPages = Len(gret.images)
          /\ \A k \in 1..Len(gret.images) :
                gret.images[k].pageIndex = k /\ gret.images[k].pageType = gpages[k]

\* saving page 2 of 3 failed after its three attempts: page 1 had been
\* rendered and saved, page 3 was not attempted, and the call threw
C35_Witness ==
    /\ gpc = "threw"
    /\ Len(gpages) = 3
    /\ Len(glog) = 4 /\ glog[4].step = "save" /\ ~glog[4].ok /\ glog[4].attempts = 3
    /\ Len(gresults) = 1
    /\ gret.error.name = "ImageGenerationError"

\* ------------------------------------------------ CleanupService, scheduling
MaxHandles == 5     \* timers set in one life of the service
MaxCleanups == 5    \* calls of performCleanup followed

schedRest == <<post, pc, pages, mainVars, fitVars, lastFit, i, commentQueue, caught,
               splitVars, pageComments, oracle, probes, runVars, collabVars, batchVars,
               cleanupVars, wrapVars, retryVars, genVars, browserVars, packHist>>

\* this.performCleanup(), called by start or by a timer
Performed(by) == Append(cleanups, [by |-> by, running |-> isRunning])

\* start(): nothing when disabled or running; else isRunning = true,
\* performCleanup(), and scheduleCleanup(), which sets the timeout to midnight
\* and keeps no handle of it
SvcStart ==
    /\ nextHandle <= MaxHandles /\ Len(cleanups) < MaxCleanups
    /\ IF ~enabled \/ isRunning
       THEN UNCHANGED <<isRunning, timers, nextHandle, cleanups>>
       ELSE /\ isRunning' = TRUE
            /\ cleanups' = Append(cleanups, [by |-> "start", running |-> TRUE])
            /\ timers' = timers \cup {[id |-> nextHandle, kind |-> "timeout"]}
            /\ nextHandle' = nextHandle + 1
    /\ UNCHANGED <<enabled, cleanupInterval, schedRest>>

\* stop(): clearInterval(this.cleanupInterval) if set; isRunning = false
SvcStop ==
    /\ timers' = {t \in timers : ~(t.kind = "interval" /\ t.id = cleanupInterval)}
    /\ cleanupInterval' = 0
    /\ isRunning' = FALSE
    /\ UNCHANGED <<enabled, nextHandle, cleanups, schedRest>>

\* the timeout set by scheduleCleanup fires: performCleanup(), then
\* this.cleanupInterval = setInterval(.., 24 h)
SvcMidnight ==
    /\ nextHandle <= MaxHandles /\ Len(cleanups) < MaxCleanups
    /\ \E t \in timers :
         /\ t.kind = "timeout"
         /\ timers' = (timers \ {t}) \cup {[id |-> nextHandle, kind |-> "interval"]}
    /\ cleanups' = Performed("timeout")
    /\ cleanupInterval' = nextHandle
    /\ nextHandle' = nextHandle + 1
    /\ UNCHANGED <<enabled, isRunning, schedRest>>

\* an interval fires: performCleanup()
SvcInterval ==
    /\ Len(cleanups) < MaxCleanups
    /\ \E t \in timers : t.kind = "interval"
    /\ cleanups' = Performed("interval")
    /\ UNCHANGED <<enabled, isRunning, cleanupInterval, timers, nextHandle, schedRest>>

\* a new service, enabled or not (CLEANUP_ENABLED)
InitSched ==
    /\ StateAt(PostOf(<<>>, <<>>, <<>>), FALSE, "start")
    /\ CollabIdle /\ BatchIdle /\ CleanupIdle /\ WrapIdle /\ RetryIdle /\ GenIdle
    /\ BrowserIdle
    /\ enabled \in BOOLEAN /\ isRunning = FALSE /\ cleanupInterval = 0
    /\ timers = {} /\ nextHandle = 1 /\ cleanups = <<>>

NextSched == SvcStart \/ SvcStop \/ SvcMidnight \/ SvcInterval

SpecSched == InitSched /\ [][NextSched]_vars

\* C36 as stated: while the service is running at most one timer is live,
\* while it is not running none is, and every performCleanup called by a
\* timer found the service running
C36_AsStated ==
    /\ isRunning => Cardinality(timers) <= 1
    /\ ~isRunning => timers = {}
    /\ \A k \in 1..Len(cleanups) : cleanups[k].by # "start" => cleanups[k].running

\* ------------------------------------------------------ the shared browser
MaxLaunches == 3    \* browsers launched in one life of the renderer

browserRest == <<post, pc, pages, mainVars, fitVars, lastFit, i, commentQueue, caught,
                 splitVars, pageComments, oracle, probes, runVars, collabVars, batchVars,
                 cleanupVars, wrapVars, retryVars, genVars, schedVars, packHist>>

\* initBrowser() up to its await: if (this.browser) return this.browser, else
\* puppeteer.launch(..) is called
InitBrowserCall(p) ==
    /\ ipc[p] \in {"idle", "done", "failed"}
    /\ ipc' = [ipc EXCEPT ![p] = IF browser # 0 THEN "done" ELSE "launching"]
    /\ UNCHANGED <<browser, live, kpc, closing, nextBrowser, cycleLaunches, browserRest>>

\* the launch resolves: this.browser = the new browser; or it rejects and
\* initBrowser throws
InitBrowserLaunched(p) ==
    /\ ipc[p] = "launching"
    /\ \/ /\ nextBrowser <= MaxLaunches
          /\ browser' = nextBrowser
          /\ live' = live \cup {nextBrowser}
          /\ nextBrowser' = nextBrowser + 1
          /\ cycleLaunches' = cycleLaunches + 1
          /\ ipc' = [ipc EXCEPT ![p] = "done"]
       \/ /\ ipc' = [ipc EXCEPT ![p] = "failed"]
          /\ UNCHANGED <<browser, live, nextBrowser, cycleLaunches>>
    /\ UNCHANGED <<kpc, closing, browserRest>>

\* close() up to its await: if (this.browser) this.browser.close() is called
CloseCall ==
    /\ kpc = "idle"
    /\ browser # 0
    /\ kpc' = "closing" /\ closing' = browser
    /\ UNCHANGED <<browser, live, ipc, nextBrowser, cycleLaunches, browserRest>>

\* browser.close() resolves: this.browser = null
CloseDone ==
    /\ kpc = "closing"
    /\ live' = live \ {closing}
    /\ browser' = 0
    /\ kpc' = "idle" /\ closing' = 0
    /\ cycleLaunches' = 0
    /\ UNCHANGED <<ipc, nextBrowser, browserRest>>

InitBrowsers ==
    /\ StateAt(PostOf(<<>>, <<>>, <<>>), FALSE, "start")
    /\ CollabIdle /\ BatchIdle /\ CleanupIdle /\ UtilIdle

NextBrowsers ==
    \/ \E p \in Callers : InitBrowserCall(p)
    \/ \E p \in Callers : InitBrowserLaunched(p)
    \/ CloseCall
    \/ CloseDone

SpecBrowsers == InitBrowsers /\ [][NextBrowsers]_vars

\* C37 as stated: at most one browser is launched between two closes, and
\* every browser that is launched and not closed is the one this.browser
\* refers to
C37_AsStated ==
    /\ cycleLaunches <= 1
    /\ \A b \in live : b = browser

\* ------------------------------------------------- the cleanup statistics
\* C38: when a run of cleanupOldImages has returned, filesScanned is the
\* number of entries the directory had and is the sum of filesDeleted,
\* filesSkipped and errors; the deleted ones are the files that are gone and
\* the errors are the files on which stat or unlink threw
C38_StatsAddUp ==
    cpc = "returned" =>
        /\ stats.filesScanned = stats.filesDeleted + stats.filesSkipped + stats.errors
        /\ stats.filesScanned = Cardinality(imageDir0)
        /\ stats.filesDeleted = Cardinality(imageDir0 \ imageDir)
        /\ stats.errors = Cardinality(refused)

\* a run over two files has returned: one was deleted, one threw
C38_Witness ==
    /\ cpc = "returned"
    /\ Cardinality(imageDir0) = 2
    /\ stats.filesScanned = 2 /\ stats.filesDeleted = 1 /\ stats.errors = 1
====
